---- MODULE Spec2Model ----
(***************************************************************************)
(* Streaming protocol engine of chat-cli: the SSE decode tasks of the      *)
(* Gemini and OpenAI clients, the mock producer, the channel they write    *)
(* to and the consumer that drains it.                                     *)
(*                                                                         *)
(* A Rust String is modelled as the sequence of its UTF-8 bytes (each a    *)
(* number in 0..255), a Vec as a sequence, an Option as <<>> (None) or     *)
(* <<v>> (Some(v)), and a serde_json::Value as a tagged record (JNull,     *)
(* JNum, JStr, JArr, JObj with members sorted by key).                     *)
(***************************************************************************)
EXTENDS Integers, Sequences, FiniteSets, TLC

VARIABLES
    pc,                 \* position of the client/decode task: idle, recv, send, done, failed
    backend,            \* the client's variant: gemini, openai, mock
    body,               \* bytes of the HTTP response body the server sends
    pos,                \* number of body bytes already yielded by bytes_stream()
    buffer,             \* `buffer`: decoded text not yet cut into events
    chunk_count,        \* `chunk_count`: chunks yielded so far
    current_tool_calls, \* `current_tool_calls`: OpenAI pending tool calls by index
    outbox,             \* items the task has computed and is sending, in order
    chan,               \* items queued in the mpsc channel
    rxAlive,            \* the Receiver has not been dropped
    received,           \* items the consumer got from recv(), in order
    closedSeen,         \* recv() has returned None
    sent,               \* history: every item accepted by tx.send, in order
    streamError,        \* history: bytes_stream() yielded Err
    fragments,          \* history: (index, arguments) of every OpenAI delta fragment merged
    mock,               \* MockLLMClient fields: responses, response_index, function_calls
    conversation_history, \* `conversation_history` of the client: its turns in order
    system_instruction, \* `system_instruction` / `system_message` / `system_prompt`
    call,               \* the send_message(_stream) call awaiting its HTTP response, if any
    result,             \* what the call that just returned gave back: Ok(..) or Err(..), if anything
    mcp_manager,        \* `mcp_manager` of the FunctionExecutor: None, or the names of its `tools`
    executing,          \* `function_call`: the FunctionCall execute_function is working on, if any
    tool_pc,            \* where execute_function waits: idle, execute, call_tool, sh
    invoked,            \* history of the call: what execute_function invoked, in order
    function_result,    \* what execute_function returned: Ok(FunctionResponse) or Err(..), if anything
    app,                \* struct App of the terminal UI, behind its mutex
    tasks,              \* the tasks run_app has spawned, one for every message entered
    loop,               \* the orchestration loop driving one user turn: its state and locals
    card                \* a ResponseCard: its width and the wrap_text calls of its last display

streamVars == <<pc, backend, body, pos, buffer, chunk_count, current_tool_calls,
                outbox, chan, rxAlive, received, closedSeen, sent,
                streamError, fragments, mock>>

storeVars == <<conversation_history, system_instruction, call, result>>

toolVars == <<mcp_manager, executing, tool_pc, invoked, function_result>>

appVars == <<app, tasks, card>>

loopVars == <<loop>>

vars == <<streamVars, storeVars, toolVars, appVars, loopVars>>

(***************************************************************************)
(* Bounds of the model.                                                    *)
(***************************************************************************)
\* The body arrives in at most MaxChunks chunks.
MaxChunks == 3
\* Bodies of at most FineLen bytes may be cut at every byte offset.
FineLen == 90
\* Longer bodies may be cut at the offsets that are multiples of CutStride.
CutStride == 120
\* An OpenAI arguments string is delivered in at most MaxFragments fragments.
MaxFragments == 3

(***************************************************************************)
(* Option and serde_json::Value.                                           *)
(***************************************************************************)
None == <<>>
Some(v) == <<v>>
IsSome(o) == o # <<>>
Unwrap(o) == o[1]

JNull == [t |-> "null"]
JNum(n) == [t |-> "num", n |-> n]
JStr(s) == [t |-> "str", s |-> s]
JObj(members) == [t |-> "obj", m |-> members]

(***************************************************************************)
(* std string operations, on byte sequences.                               *)
(***************************************************************************)
Min(S) == CHOOSE x \in S : \A y \in S : x <= y

\* s[from..] with a 0-based byte offset
From(s, from) == SubSeq(s, from + 1, Len(s))
\* s[..to] with a 0-based exclusive end
Upto(s, to) == SubSeq(s, 1, to)

\* str::starts_with
StartsWith(s, prefix) ==
    /\ Len(s) >= Len(prefix)
    /\ SubSeq(s, 1, Len(prefix)) = prefix

\* str::find(pattern): Some(0-based offset of the first match) or None
Find(s, pattern) ==
    LET hits == {i \in 0..(Len(s) - Len(pattern)) :
                    SubSeq(s, i + 1, i + Len(pattern)) = pattern}
    IN  IF hits = {} THEN None ELSE Some(Min(hits))

\* str::contains
Contains(s, pattern) == IsSome(Find(s, pattern))

\* char::is_whitespace on the ASCII range (the model's texts hold no other
\* white space): \t \n \x0B \x0C \r and space
IsWhitespace(b) == b \in {9, 10, 11, 12, 13, 32}

\* str::trim
Trim(s) ==
    LET keep == {i \in 1..Len(s) : ~IsWhitespace(s[i])}
    IN  IF keep = {} THEN <<>>
        ELSE SubSeq(s, Min(keep), CHOOSE i \in keep : \A j \in (i + 1)..Len(s) : j \notin keep)

\* str::lines(): split after every "\n"; each line without its "\n" and
\* without a "\r" before that "\n"; a final piece without "\n" is a line too,
\* an empty final piece is not
RECURSIVE Lines(_)
Lines(s) ==
    LET nl == Find(s, <<10>>)
        line == Upto(s, Unwrap(nl))
    IN  IF s = <<>> THEN <<>>
        ELSE IF nl = None THEN <<s>>
        ELSE <<IF line # <<>> /\ line[Len(line)] = 13 THEN Upto(line, Len(line) - 1) ELSE line>>
             \o Lines(From(s, Unwrap(nl) + 1))

\* [&str]::join(sep)
RECURSIVE Join(_, _)
Join(pieces, sep) ==
    IF pieces = <<>> THEN <<>>
    ELSE IF Len(pieces) = 1 THEN pieces[1]
    ELSE pieces[1] \o sep \o Join(Tail(pieces), sep)

\* str::to_lowercase on the ASCII range
ToLowercase(s) == [i \in 1..Len(s) |-> IF s[i] \in 65..90 THEN s[i] + 32 ELSE s[i]]

\* str::split_whitespace(): the maximal runs of non-white-space bytes, in
\* the order of their first bytes
SplitWhitespace(s) ==
    LET starts == {i \in 1..Len(s) :
                      ~IsWhitespace(s[i]) /\ (i = 1 \/ IsWhitespace(s[i - 1]))}
        rank == [i \in starts |-> Cardinality({j \in starts : j <= i})]
        EndOf(i) == LET after == {j \in i..Len(s) : IsWhitespace(s[j])}
                    IN  IF after = {} THEN Len(s) ELSE Min(after) - 1
    IN  [k \in 1..Cardinality(starts) |->
            LET i == CHOOSE i \in starts : rank[i] = k
            IN  SubSeq(s, i, EndOf(i))]

\* String::from_utf8(bytes).is_ok(): the bytes before the first non-ASCII byte
\* are valid; that byte must start a complete well-formed sequence (of width
\* bytes, the second one within the range its lead byte allows), and the
\* bytes after the sequence must be valid in turn
RECURSIVE IsUtf8(_)
IsUtf8(bytes) ==
    LET high == {i \in 1..Len(bytes) : bytes[i] >= 128}
        p == Min(high)
        lead == bytes[p]
        width == IF lead \in 194..223 THEN 2
                 ELSE IF lead \in 224..239 THEN 3
                 ELSE IF lead \in 240..244 THEN 4
                 ELSE 0
        second == IF lead = 224 THEN 160..191
                  ELSE IF lead = 237 THEN 128..159
                  ELSE IF lead = 240 THEN 144..191
                  ELSE IF lead = 244 THEN 128..143
                  ELSE 128..191
    IN  IF high = {} THEN TRUE
        ELSE /\ width > 0
             /\ Len(bytes) >= p + width - 1
             /\ bytes[p + 1] \in second
             /\ \A k \in (p + 2)..(p + width - 1) : bytes[k] \in 128..191
             /\ IsUtf8(From(bytes, p + width - 1))

(***************************************************************************)
(* Texts.                                                                  *)
(***************************************************************************)
\* the string literals of the decode tasks
Lit ==
    [crlfcrlf |-> <<13, 10, 13, 10>>,                   \* "\r\n\r\n"
     lflf |-> <<10, 10>>,                           \* "\n\n"
     data |-> <<100, 97, 116, 97, 58, 32>>,                         \* "data: "
     done |-> <<91, 68, 79, 78, 69, 93>>,                         \* "[DONE]"
     json_parse_error |-> <<74, 83, 79, 78, 32, 112, 97, 114, 115, 101, 32, 101, 114, 114, 111, 114, 58, 32>>, \* "JSON parse error: "
     data_sep |-> <<32, 45, 32, 68, 97, 116, 97, 58, 32>>,                  \* " - Data: "
     stream_error |-> <<83, 116, 114, 101, 97, 109, 32, 101, 114, 114, 111, 114, 58, 32>>,         \* "Stream error: "
     call_ |-> <<99, 97, 108, 108, 95>>,                         \* "call_"
     function |-> <<102, 117, 110, 99, 116, 105, 111, 110>>,                   \* "function"
     tool_calls |-> <<116, 111, 111, 108, 95, 99, 97, 108, 108, 115>>,               \* "tool_calls"
     name |-> <<110, 97, 109, 101>>,                           \* "name"
     args |-> <<97, 114, 103, 115>>,                           \* "args"
     id |-> <<105, 100>>,                               \* "id"
     response |-> <<114, 101, 115, 112, 111, 110, 115, 101>>,                   \* "response"
     result |-> <<114, 101, 115, 117, 108, 116>>,                       \* "result"
     unknown |-> <<117, 110, 107, 110, 111, 119, 110>>,                     \* "unknown"
     api_request_failed |-> <<65, 80, 73, 32, 114, 101, 113, 117, 101, 115, 116, 32, 102, 97, 105, 108, 101, 100, 58, 32>>,   \* "API request failed: "
     no_response |-> <<78, 111, 32, 114, 101, 115, 112, 111, 110, 115, 101, 32, 102, 114, 111, 109, 32, 65, 80, 73>>,          \* "No response from API"
     empty_response |-> <<69, 109, 112, 116, 121, 32, 114, 101, 115, 112, 111, 110, 115, 101, 32, 102, 114, 111, 109, 32, 65, 80, 73>>,    \* "Empty response from API"
     no_text_content |-> <<78, 111, 32, 116, 101, 120, 116, 32, 99, 111, 110, 116, 101, 110, 116, 32, 105, 110, 32, 114, 101, 115, 112, 111, 110, 115, 101>>, \* "No text content in response"
     shell_command |-> <<115, 104, 101, 108, 108, 95, 99, 111, 109, 109, 97, 110, 100>>,         \* "shell_command"
     command |-> <<99, 111, 109, 109, 97, 110, 100>>,                     \* "command"
     save_memory |-> <<115, 97, 118, 101, 95, 109, 101, 109, 111, 114, 121>>,             \* "save_memory"
     google_web_search |-> <<103, 111, 111, 103, 108, 101, 95, 119, 101, 98, 95, 115, 101, 97, 114, 99, 104>>, \* "google_web_search"
     fact |-> <<102, 97, 99, 116>>,                           \* "fact"
     query |-> <<113, 117, 101, 114, 121>>,                         \* "query"
     missing_command |-> <<77, 105, 115, 115, 105, 110, 103, 32, 39, 99, 111, 109, 109, 97, 110, 100, 39, 32, 112, 97, 114, 97, 109, 101, 116, 101, 114>> (* Missing 'command' parameter *),
     unknown_function |-> <<85, 110, 107, 110, 111, 119, 110, 32, 102, 117, 110, 99, 116, 105, 111, 110, 58, 32>>, \* "Unknown function: "
     fact_empty |-> <<70, 97, 99, 116, 32, 99, 97, 110, 110, 111, 116, 32, 98, 101, 32, 101, 109, 112, 116, 121>>,     \* "Fact cannot be empty"
     query_empty |-> <<81, 117, 101, 114, 121, 32, 99, 97, 110, 110, 111, 116, 32, 98, 101, 32, 101, 109, 112, 116, 121>>,   \* "Query cannot be empty"
     missing_field |-> <<109, 105, 115, 115, 105, 110, 103, 32, 102, 105, 101, 108, 100, 32>>,        \* "missing field "
     success |-> <<115, 117, 99, 99, 101, 115, 115>>,                     \* "success"
     content |-> <<99, 111, 110, 116, 101, 110, 116>>,                     \* "content"
     error |-> <<101, 114, 114, 111, 114>>,                         \* "error"
     tool_execution_failed |-> <<84, 111, 111, 108, 32, 101, 120, 101, 99, 117, 116, 105, 111, 110, 32, 102, 97, 105, 108, 101, 100>> (* Tool execution failed *),
     exit_code |-> <<101, 120, 105, 116, 95, 99, 111, 100, 101>>,                 \* "exit_code"
     stdout |-> <<115, 116, 100, 111, 117, 116>>,                       \* "stdout"
     stderr |-> <<115, 116, 100, 101, 114, 114>>,                       \* "stderr"
     output |-> <<111, 117, 116, 112, 117, 116>>,                       \* "output"
     command_ok |-> <<67, 111, 109, 109, 97, 110, 100, 32, 101, 120, 101, 99, 117, 116, 101, 100, 32, 115, 117, 99, 99, 101, 115, 115, 102, 117, 108, 108, 121, 46, 10, 79, 117, 116, 112, 117, 116, 58, 10>> (* Command executed successfully.\nOutput:\n *),
     command_failed |-> <<67, 111, 109, 109, 97, 110, 100, 32, 102, 97, 105, 108, 101, 100, 32, 119, 105, 116, 104, 32, 101, 120, 105, 116, 32, 99, 111, 100, 101, 32>> (* Command failed with exit code  *),
     stdout_label |-> <<46, 10, 83, 116, 100, 111, 117, 116, 58, 10>> (* .\nStdout:\n *),
     stderr_label |-> <<10, 83, 116, 100, 101, 114, 114, 58, 10>> (* \nStderr:\n *),
     llm_content |-> <<108, 108, 109, 95, 99, 111, 110, 116, 101, 110, 116>>,             \* "llm_content"
     return_display |-> <<114, 101, 116, 117, 114, 110, 95, 100, 105, 115, 112, 108, 97, 121>>,       \* "return_display"
     summary |-> <<115, 117, 109, 109, 97, 114, 121>>]                     \* "summary"

\* the texts the servers, the libraries and the clock of the model produce
T ==
    [Hi |-> <<72, 105>>,                \* "Hi"
     A |-> <<65>>,                  \* "A"
     B |-> <<66>>,                  \* "B"
     EAcute |-> <<195, 169>>,             \* U+00E9, e with acute accent: the two bytes 195, 169
     f |-> <<102>>,                  \* "f"
     g |-> <<103>>,                  \* "g"
     a |-> <<97>>,                  \* "a"
     stop |-> <<115, 116, 111, 112>>,            \* "stop"
     Args |-> <<123, 34, 97, 34, 58, 49, 125>>,         \* {"a":1}: the arguments text a tool call delivers
     ArgsTruncated |-> <<123, 34, 97, 34>>,   \* {"a": Args cut short, not JSON
     EmptyObject |-> <<123, 125>>,       \* {}
     \* what the Display of a serde_json::Error prints for a payload serde
     \* rejects (one text stands for all of them)
     SerdeError |-> <<101, 120, 112, 101, 99, 116, 101, 100, 32, 118, 97, 108, 117, 101, 32, 97, 116, 32, 108, 105, 110, 101, 32, 49, 32, 99, 111, 108, 117, 109, 110, 32, 49>> (* expected value at line 1 column 1 *),
     \* what the Display of a reqwest::Error prints when the connection drops
     TransportError |-> <<99, 111, 110, 110, 101, 99, 116, 105, 111, 110, 32, 114, 101, 115, 101, 116>> (* connection reset *),
     \* chrono::Utc::now().timestamp_millis(), printed
     TimestampMillis |-> <<49, 55, 48, 48, 48, 48, 48, 48, 48, 48, 48, 48, 48>> (* 1700000000000 *),
     \* what response.text() gives for a response whose status is not 2xx
     ErrorText |-> <<113, 117, 111, 116, 97, 32, 101, 120, 99, 101, 101, 100, 101, 100>> (* quota exceeded *),
     \* the name of a tool only an MCP server provides
     fetch |-> <<102, 101, 116, 99, 104>> (* fetch *),
     \* a shell command
     ls |-> <<108, 115>> (* ls *),
     \* a text of white space alone
     Blank |-> <<32>>,
     \* what the Display of a std::io::Error prints when the tool cannot write
     IoError |-> <<80, 101, 114, 109, 105, 115, 115, 105, 111, 110, 32, 100, 101, 110, 105, 101, 100, 32, 40, 111, 115, 32, 101, 114, 114, 111, 114, 32, 49, 51, 41>> (* Permission denied (os error 13) *)]

(***************************************************************************)
(* Gemini payloads: the JSON texts the model's Gemini bodies carry, each   *)
(* with the GenerateContentResponse serde_json::from_str makes of it.  The *)
(* rows hold every payload a body of GeminiBodies can put in a data line   *)
(* that serde accepts; every other reachable payload is a truncated or     *)
(* spliced text that serde rejects.  Fields the decode task never reads    *)
(* (role, finishReason, index, functionResponse, usageMetadata, ...) are   *)
(* left out of the parsed value.                                           *)
(***************************************************************************)
\* {"args":{},"name":"f"} as a serde_json::Value
CallValue(name) == JObj(<< <<Lit.args, JObj(<<>>)>>, <<Lit.name, JStr(name)>> >>)

GPart(text, function_call) == [text |-> text, function_call |-> function_call]
GResponse(candidates) ==
    [candidates |-> [i \in 1..Len(candidates) |-> [content |-> [parts |-> candidates[i]]]]]

G ==
    [\* {"candidates":[{"content":{"parts":[{"text":"Hi"}],"role":"model"}}]}
     Hi |-> [json |-> <<123, 34, 99, 97, 110, 100, 105, 100, 97, 116, 101, 115, 34, 58, 91, 123, 34, 99, 111, 110, 116, 101, 110, 116, 34, 58, 123, 34, 112, 97, 114, 116, 115, 34, 58, 91, 123, 34, 116, 101, 120, 116, 34, 58, 34, 72, 105, 34, 125, 93, 44, 34, 114, 111, 108, 101, 34, 58, 34, 109, 111, 100, 101, 108, 34, 125, 125, 93, 125>> (* {"candidates":[{"content":{"parts":[{"text":"Hi"}],"role":"model"}}]} *),
             value |-> GResponse(<< <<GPart(Some(T.Hi), None)>> >>)],
     \* {"candidates":[{"content":{"parts":[{"text":"\u00e9"}],"role":"model"}}]} with the character itself
     EAcute |-> [json |-> <<123, 34, 99, 97, 110, 100, 105, 100, 97, 116, 101, 115, 34, 58, 91, 123, 34, 99, 111, 110, 116, 101, 110, 116, 34, 58, 123, 34, 112, 97, 114, 116, 115, 34, 58, 91, 123, 34, 116, 101, 120, 116, 34, 58, 34, 195, 169, 34, 125, 93, 44, 34, 114, 111, 108, 101, 34, 58, 34, 109, 111, 100, 101, 108, 34, 125, 125, 93, 125>> (* {"candidates":[{"content":{"parts":[{"text":"é"}],"role":"model"}}]} *),
                 value |-> GResponse(<< <<GPart(Some(T.EAcute), None)>> >>)],
     \* {"candidates":[{"content":{"parts":[{"text":""}],"role":"model"}}]}
     EmptyText |-> [json |-> <<123, 34, 99, 97, 110, 100, 105, 100, 97, 116, 101, 115, 34, 58, 91, 123, 34, 99, 111, 110, 116, 101, 110, 116, 34, 58, 123, 34, 112, 97, 114, 116, 115, 34, 58, 91, 123, 34, 116, 101, 120, 116, 34, 58, 34, 34, 125, 93, 44, 34, 114, 111, 108, 101, 34, 58, 34, 109, 111, 100, 101, 108, 34, 125, 125, 93, 125>> (* {"candidates":[{"content":{"parts":[{"text":""}],"role":"model"}}]} *),
                    value |-> GResponse(<< <<GPart(Some(<<>>), None)>> >>)],
     \* {"candidates":[{"content":{"parts":[{}],"role":"model"}}]}
     EmptyPart |-> [json |-> <<123, 34, 99, 97, 110, 100, 105, 100, 97, 116, 101, 115, 34, 58, 91, 123, 34, 99, 111, 110, 116, 101, 110, 116, 34, 58, 123, 34, 112, 97, 114, 116, 115, 34, 58, 91, 123, 125, 93, 44, 34, 114, 111, 108, 101, 34, 58, 34, 109, 111, 100, 101, 108, 34, 125, 125, 93, 125>> (* {"candidates":[{"content":{"parts":[{}],"role":"model"}}]} *),
                    value |-> GResponse(<< <<GPart(None, None)>> >>)],
     \* {"candidates":[{"content":{"parts":[],"role":"model"}}]}
     NoParts |-> [json |-> <<123, 34, 99, 97, 110, 100, 105, 100, 97, 116, 101, 115, 34, 58, 91, 123, 34, 99, 111, 110, 116, 101, 110, 116, 34, 58, 123, 34, 112, 97, 114, 116, 115, 34, 58, 91, 93, 44, 34, 114, 111, 108, 101, 34, 58, 34, 109, 111, 100, 101, 108, 34, 125, 125, 93, 125>> (* {"candidates":[{"content":{"parts":[],"role":"model"}}]} *),
                  value |-> GResponse(<< <<>> >>)],
     \* {"candidates":[]}
     NoCandidates |-> [json |-> <<123, 34, 99, 97, 110, 100, 105, 100, 97, 116, 101, 115, 34, 58, 91, 93, 125>> (* {"candidates":[]} *),
                       value |-> GResponse(<<>>)],
     \* {"candidates":[{"content":{"parts":[{"functionCall":{"name":"f","args":{}}}],"role":"model"}}]}
     Call |-> [json |-> <<123, 34, 99, 97, 110, 100, 105, 100, 97, 116, 101, 115, 34, 58, 91, 123, 34, 99, 111, 110, 116, 101, 110, 116, 34, 58, 123, 34, 112, 97, 114, 116, 115, 34, 58, 91, 123, 34, 102, 117, 110, 99, 116, 105, 111, 110, 67, 97, 108, 108, 34, 58, 123, 34, 110, 97, 109, 101, 34, 58, 34, 102, 34, 44, 34, 97, 114, 103, 115, 34, 58, 123, 125, 125, 125, 93, 44, 34, 114, 111, 108, 101, 34, 58, 34, 109, 111, 100, 101, 108, 34, 125, 125, 93, 125>> (* {"candidates":[{"content":{"parts":[{"functionCall":{"name":"f","args":{}}}],"role":"model"}}]} *),
               value |-> GResponse(<< <<GPart(None, Some(CallValue(T.f)))>> >>)],
     \* {"candidates":[{"content":{"parts":[{"text":"A"},{"functionCall":{"name":"f","args":{}}},{},{"text":""},{"text":"B","functionCall":{"name":"g","args":{}}}],"role":"model"}}]}
     Multi |-> [json |-> <<123, 34, 99, 97, 110, 100, 105, 100, 97, 116, 101, 115, 34, 58, 91, 123, 34, 99, 111, 110, 116, 101, 110, 116, 34, 58, 123, 34, 112, 97, 114, 116, 115, 34, 58, 91, 123, 34, 116, 101, 120, 116, 34, 58, 34, 65, 34, 125, 44, 123, 34, 102, 117, 110, 99, 116, 105, 111, 110, 67, 97, 108, 108, 34, 58, 123, 34, 110, 97, 109, 101, 34, 58, 34, 102, 34, 44, 34, 97, 114, 103, 115, 34, 58, 123, 125, 125, 125, 44, 123, 125, 44, 123, 34, 116, 101, 120, 116, 34, 58, 34, 34, 125, 44, 123, 34, 116, 101, 120, 116, 34, 58, 34, 66, 34, 44, 34, 102, 117, 110, 99, 116, 105, 111, 110, 67, 97, 108, 108, 34, 58, 123, 34, 110, 97, 109, 101, 34, 58, 34, 103, 34, 44, 34, 97, 114, 103, 115, 34, 58, 123, 125, 125, 125, 93, 44, 34, 114, 111, 108, 101, 34, 58, 34, 109, 111, 100, 101, 108, 34, 125, 125, 93, 125>> (* {"candidates":[{"content":{"parts":[{"text":"A"},{"functionCall":{"name":"f","args":{}}},{},{"text":""},{"text":"B","functionCall":{"name":"g","args":{}}}],"role":"model"}}]} *),
                value |-> GResponse(<< <<GPart(Some(T.A), None),
                                         GPart(None, Some(CallValue(T.f))),
                                         GPart(None, None),
                                         GPart(Some(<<>>), None),
                                         GPart(Some(T.B), Some(CallValue(T.g)))>> >>)],
     \* {"candidates":[{"content":{"parts":[{"text":"A"}],"role":"model"}},{"content":{"parts":[{"text":"B"}],"role":"model"}}]}
     TwoCandidates |-> [json |-> <<123, 34, 99, 97, 110, 100, 105, 100, 97, 116, 101, 115, 34, 58, 91, 123, 34, 99, 111, 110, 116, 101, 110, 116, 34, 58, 123, 34, 112, 97, 114, 116, 115, 34, 58, 91, 123, 34, 116, 101, 120, 116, 34, 58, 34, 65, 34, 125, 93, 44, 34, 114, 111, 108, 101, 34, 58, 34, 109, 111, 100, 101, 108, 34, 125, 125, 44, 123, 34, 99, 111, 110, 116, 101, 110, 116, 34, 58, 123, 34, 112, 97, 114, 116, 115, 34, 58, 91, 123, 34, 116, 101, 120, 116, 34, 58, 34, 66, 34, 125, 93, 44, 34, 114, 111, 108, 101, 34, 58, 34, 109, 111, 100, 101, 108, 34, 125, 125, 93, 125>> (* {"candidates":[{"content":{"parts":[{"text":"A"}],"role":"model"}},{"content":{"parts":[{"text":"B"}],"role":"model"}}]} *),
                        value |-> GResponse(<< <<GPart(Some(T.A), None)>>,
                                               <<GPart(Some(T.B), None)>> >>)]]

\* serde_json::from_str::<GenerateContentResponse>(json_data)
ParseGenerateContentResponse(json_data) ==
    LET rows == {k \in DOMAIN G : G[k].json = json_data}
    IN  IF rows = {} THEN [ok |-> FALSE, err |-> T.SerdeError]
        ELSE [ok |-> TRUE, value |-> G[CHOOSE k \in rows : TRUE].value]

(***************************************************************************)
(* OpenAI payloads: the JSON texts the model's OpenAI bodies carry, each   *)
(* with the ChatCompletionChunk serde_json::from_str makes of it.  A       *)
(* payload is the envelope                                                 *)
(*   {"id":"","object":"","created":1,"model":"","choices":[{"index":0,    *)
(*    "delta":D}]}                                                         *)
(* around a delta D, with ,"finish_reason":"F" after the delta when the    *)
(* choice has one.  Fields the decode task never reads (id, object,        *)
(* created, model, choice index, role) are left out of the parsed value.   *)
(***************************************************************************)
\* serde_json::from_str::<serde_json::Value>(arguments), on the arguments
\* texts the model's bodies can accumulate: the two complete texts parse, every
\* other one is a proper prefix, suffix or infix of T.Args, or a repetition,
\* which serde rejects
ParseValue(arguments) ==
    IF arguments = T.Args
    THEN [ok |-> TRUE, value |-> JObj(<< <<T.a, JNum(1)>> >>)]
    ELSE IF arguments = T.EmptyObject
    THEN [ok |-> TRUE, value |-> JObj(<<>>)]
    ELSE [ok |-> FALSE]

\* a text as the body of a JSON string: " and \ escaped
RECURSIVE JsonEscape(_)
JsonEscape(s) ==
    IF s = <<>> THEN <<>>
    ELSE (IF Head(s) \in {34, 92} THEN <<92, Head(s)>> ELSE <<Head(s)>>) \o JsonEscape(Tail(s))

\* struct Delta, of the fields the task reads
Delta(content, tool_calls) == [content |-> content, tool_calls |-> tool_calls]

\* the deltas without tool calls
D ==
    [\* {"content":"Hi"}
     Hi |-> [json |-> <<123, 34, 99, 111, 110, 116, 101, 110, 116, 34, 58, 34, 72, 105, 34, 125>> (* {"content":"Hi"} *), value |-> Delta(Some(T.Hi), None)],
     \* {"content":""}
     EmptyContent |-> [json |-> <<123, 34, 99, 111, 110, 116, 101, 110, 116, 34, 58, 34, 34, 125>> (* {"content":""} *), value |-> Delta(Some(<<>>), None)],
     \* {"role":"assistant"}
     Role |-> [json |-> <<123, 34, 114, 111, 108, 101, 34, 58, 34, 97, 115, 115, 105, 115, 116, 97, 110, 116, 34, 125>> (* {"role":"assistant"} *), value |-> Delta(None, None)],
     \* {}
     Empty |-> [json |-> <<123, 125>> (* {} *), value |-> Delta(None, None)]]

\* the delta with one tool-call fragment; each argument is an Option and a
\* field that is None is absent from the JSON text:
\* {"tool_calls":[{"index":0,"id":"call_1","type":"function","function":{"name":"f","arguments":"{}"}}]}
D_ToolCall(index, id, call_type, name, arguments) ==
    LET Key(k) == <<34>> \o k \o <<34, 58>>
        Str(o) == IF IsSome(o) THEN <<34>> \o JsonEscape(Unwrap(o)) \o <<34>> ELSE <<>>
        Field(k, o, text) == IF IsSome(o) THEN <<Key(k) \o text>> ELSE <<>>
        function == Field(<<110, 97, 109, 101>> (* name *), name, Str(name))
                    \o Field(<<97, 114, 103, 117, 109, 101, 110, 116, 115>> (* arguments *), arguments, Str(arguments))
        fields == Field(<<105, 110, 100, 101, 120>> (* index *), index, IF IsSome(index) THEN <<48 + Unwrap(index)>> ELSE <<>>)
                  \o Field(<<105, 100>> (* id *), id, Str(id))
                  \o Field(<<116, 121, 112, 101>> (* type *), call_type, Str(call_type))
                  \o (IF function = <<>> THEN <<>>
                      ELSE <<Key(<<102, 117, 110, 99, 116, 105, 111, 110>> (* function *)) \o <<123>> \o Join(function, <<44>>) \o <<125>> >>)
    IN  [json |-> <<123, 34, 116, 111, 111, 108, 95, 99, 97, 108, 108, 115, 34, 58, 91, 123>> (* {"tool_calls":[{ *) \o Join(fields, <<44>>) \o <<125, 93, 125>> (* }]} *),
         value |-> Delta(None,
                         Some(<<[index |-> index, id |-> id, call_type |-> call_type,
                                 function |-> IF function = <<>> THEN None
                                              ELSE Some([name |-> name,
                                                         arguments |-> arguments])]>>))]

\* the chunk whose only choice has the delta row d and the given finish_reason
OChunk(d, finish_reason) ==
    [json |-> <<123, 34, 105, 100, 34, 58, 34, 34, 44, 34, 111, 98, 106, 101, 99, 116, 34, 58, 34, 34, 44, 34, 99, 114, 101, 97, 116, 101, 100, 34, 58, 49, 44, 34, 109, 111, 100, 101, 108, 34, 58, 34, 34, 44, 34, 99, 104, 111, 105, 99, 101, 115, 34, 58, 91, 123, 34, 105, 110, 100, 101, 120, 34, 58, 48, 44, 34, 100, 101, 108, 116, 97, 34, 58>> (* {"id":"","object":"","created":1,"model":"","choices":[{"index":0,"delta": *)
              \o d.json
              \o (IF IsSome(finish_reason)
                  THEN <<44, 34, 102, 105, 110, 105, 115, 104, 95, 114, 101, 97, 115, 111, 110, 34, 58, 34>> (* ,"finish_reason":" *) \o Unwrap(finish_reason) \o <<34>>
                  ELSE <<>>)
              \o <<125, 93, 125>> (* }]} *),
     value |-> [choices |-> <<[delta |-> d.value, finish_reason |-> finish_reason]>>]]

\* {"id":"","object":"","created":1,"model":"","choices":[]}
O_NoChoices == [json |-> <<123, 34, 105, 100, 34, 58, 34, 34, 44, 34, 111, 98, 106, 101, 99, 116, 34, 58, 34, 34, 44, 34, 99, 114, 101, 97, 116, 101, 100, 34, 58, 49, 44, 34, 109, 111, 100, 101, 108, 34, 58, 34, 34, 44, 34, 99, 104, 111, 105, 99, 101, 115, 34, 58, 91, 93, 125>> (* {"id":"","object":"","created":1,"model":"","choices":[]} *),
                value |-> [choices |-> <<>>]]

\* the payloads serde accepts: the deltas of D and the tool-call deltas of the
\* four shapes a server sends (first fragment, later fragment, fragment
\* without index, name without arguments), for the names f and g, the indices
\* 0 and 1 and every piece of T.Args, under each finish_reason
OpenAIPayloads ==
    LET pieces == {SubSeq(T.Args, i, j) : i \in 1..Len(T.Args), j \in 1..Len(T.Args)}
                  \cup {T.EmptyObject}
        indices == {Some(0), Some(1)}
        names == {Some(T.f), Some(T.g)}
        call_1 == Some(Lit.call_ \o <<49>>)
        deltas ==
            {D[k] : k \in DOMAIN D}
            \cup {D_ToolCall(i, call_1, Some(Lit.function), n, Some(a)) :
                     i \in indices, n \in names, a \in pieces}
            \cup {D_ToolCall(i, None, None, None, Some(a)) : i \in indices, a \in pieces}
            \cup {D_ToolCall(None, None, None, n, Some(a)) : n \in names, a \in pieces}
            \cup {D_ToolCall(i, Some(<<>>), None, n, None) : i \in indices, n \in names}
    IN  {OChunk(d, f) : d \in deltas, f \in {None, Some(Lit.tool_calls), Some(T.stop)}}
        \cup {O_NoChoices}

\* serde_json::from_str::<ChatCompletionChunk>(json_data)
ParseChatCompletionChunk(json_data) ==
    LET rows == {r \in OpenAIPayloads : r.json = json_data}
    IN  IF rows = {} THEN [ok |-> FALSE, err |-> T.SerdeError]
        ELSE [ok |-> TRUE, value |-> (CHOOSE r \in rows : TRUE).value]

(***************************************************************************)
(* Channel items: the (String, Option<serde_json::Value>) tuples.  src is  *)
(* a history tag naming the code path that built the item; the consumer    *)
(* sees text and fc only.                                                  *)
(***************************************************************************)
Item(text, fc, src) == [text |-> text, fc |-> fc, src |-> src]
Visible(item) == <<item.text, item.fc>>
VisibleSeq(items) == [i \in 1..Len(items) |-> Visible(items[i])]

\* mpsc::channel(1000) of the Gemini and OpenAI clients
ChannelCapacity == 1000
\* mpsc::channel(100) of the mock client
MockChannelCapacity == 100

(***************************************************************************)
(* Gemini decode task: the body of the spawned task, from a chunk to the   *)
(* items it sends.                                                         *)
(***************************************************************************)
\* GeminiPartItems with the function call read only when the part has no text
\* (an `else if` in place of the second `if`)
GeminiPartItems_TextOrCall(parts) ==
    LET raw == [i \in 1..Len(parts) |->
                   Item(IF IsSome(parts[i].text) THEN Unwrap(parts[i].text) ELSE <<>>,
                        IF IsSome(parts[i].text) THEN None ELSE parts[i].function_call,
                        "part")]
        NotEmpty(it) == it.text # <<>> \/ IsSome(it.fc)
    IN  SelectSeq(raw, NotEmpty)

\* GeminiPartItems without the test that skips a part with nothing to send
GeminiPartItems_Unfiltered(parts) ==
    [i \in 1..Len(parts) |->
        Item(IF IsSome(parts[i].text) THEN Unwrap(parts[i].text) ELSE <<>>,
             parts[i].function_call, "part")]

\* the (text_content, function_call) of one part, when the part is sent
GeminiPartItems(parts) ==
    LET raw == [i \in 1..Len(parts) |->
                   Item(IF IsSome(parts[i].text) THEN Unwrap(parts[i].text) ELSE <<>>,
                        parts[i].function_call, "part")]
        NotEmpty(it) == it.text # <<>> \/ IsSome(it.fc)
    IN  SelectSeq(raw, NotEmpty)

\* format!("JSON parse error: {} - Data: {}", e, json_data), sent with None
ParseErrorItem(err, json_data) ==
    Item(Lit.json_parse_error \o err \o Lit.data_sep \o json_data, None, "parse_error")

\* GeminiHandleLine without the skip of blank and [DONE] payloads
GeminiHandleLine_NoSkip(raw_line, out) ==
    LET line == Trim(raw_line)
    IN  IF ~StartsWith(line, Lit.data) THEN out
        ELSE LET json_data == From(line, 6)
                 parsed == ParseGenerateContentResponse(json_data)
             IN  IF parsed.ok
                 THEN IF parsed.value.candidates # <<>>
                      THEN out \o GeminiPartItems(parsed.value.candidates[1].content.parts)
                      ELSE out
                 ELSE Append(out, ParseErrorItem(parsed.err, json_data))

\* one line of an event: the items appended to out
GeminiHandleLine(raw_line, out) ==
    LET line == Trim(raw_line)
    IN  IF ~StartsWith(line, Lit.data) THEN out
        ELSE LET json_data == From(line, 6)
             IN  IF Trim(json_data) = <<>> \/ Trim(json_data) = Lit.done THEN out
                 ELSE LET parsed == ParseGenerateContentResponse(json_data)
                      IN  IF parsed.ok
                          THEN IF parsed.value.candidates # <<>>
                               THEN out \o GeminiPartItems(parsed.value.candidates[1].content.parts)
                               ELSE out
                          ELSE Append(out, ParseErrorItem(parsed.err, json_data))

RECURSIVE GeminiHandleLines(_, _)
GeminiHandleLines(lines, out) ==
    IF lines = <<>> THEN out
    ELSE GeminiHandleLines(Tail(lines), GeminiHandleLine(Head(lines), out))

\* buffer.find("\r\n\r\n").or_else(|| buffer.find("\n\n"))
GeminiEventEnd(buf) ==
    LET crlf == Find(buf, Lit.crlfcrlf)
    IN  IF IsSome(crlf) THEN crlf ELSE Find(buf, Lit.lflf)

\* the while-let loop over the complete events of the buffer
RECURSIVE GeminiDrain(_, _)
GeminiDrain(buf, out) ==
    LET found == GeminiEventEnd(buf)
    IN  IF found = None THEN [buffer |-> buf, out |-> out]
        ELSE LET event_end == Unwrap(found)
                 event == Upto(buf, event_end)
                 skip_len == IF StartsWith(From(buf, event_end), Lit.crlfcrlf) THEN 4 ELSE 2
             IN  GeminiDrain(From(buf, event_end + skip_len),
                             GeminiHandleLines(Lines(event), out))

\* GeminiOnChunk with the bytes of every chunk appended to the buffer
GeminiOnChunk_KeepsBytes(buf, chunk) ==
    GeminiDrain(buf \o chunk, <<>>)

\* Ok(chunk): what the task makes of one chunk
GeminiOnChunk(buf, chunk) ==
    IF IsUtf8(chunk) THEN GeminiDrain(buf \o chunk, <<>>)
    ELSE [buffer |-> buf, out |-> <<>>]

(***************************************************************************)
(* OpenAI decode task.                                                     *)
(***************************************************************************)
\* the slot pushed while current_tool_calls.len() <= index
NewToolCall ==
    [id |-> Lit.call_ \o T.TimestampMillis,
     call_type |-> Lit.function,
     function |-> [name |-> <<>>, arguments |-> <<>>]]

\* MergeDeltaToolCall with the arguments fragment assigned instead of appended
MergeDeltaToolCall_Overwrite(tcs, d) ==
    LET index == IF IsSome(d.index) THEN Unwrap(d.index) ELSE 0
        grown == tcs \o [k \in 1..(index + 1 - Len(tcs)) |-> NewToolCall]
        tool_call == grown[index + 1]
        id == IF IsSome(d.id) /\ Unwrap(d.id) # <<>> THEN Unwrap(d.id) ELSE tool_call.id
        call_type == IF IsSome(d.call_type) THEN Unwrap(d.call_type) ELSE tool_call.call_type
        f == d.function
        name == IF IsSome(f) /\ IsSome(Unwrap(f).name)
                THEN Unwrap(Unwrap(f).name) ELSE tool_call.function.name
        arguments == IF IsSome(f) /\ IsSome(Unwrap(f).arguments)
                     THEN Unwrap(Unwrap(f).arguments)
                     ELSE tool_call.function.arguments
    IN  [grown EXCEPT ![index + 1] =
            [id |-> id, call_type |-> call_type,
             function |-> [name |-> name, arguments |-> arguments]]]

\* MergeDeltaToolCall with every fragment merged into slot 0
MergeDeltaToolCall_IgnoresIndex(tcs, d) ==
    LET index == 0
        grown == tcs \o [k \in 1..(index + 1 - Len(tcs)) |-> NewToolCall]
        tool_call == grown[index + 1]
        id == IF IsSome(d.id) /\ Unwrap(d.id) # <<>> THEN Unwrap(d.id) ELSE tool_call.id
        call_type == IF IsSome(d.call_type) THEN Unwrap(d.call_type) ELSE tool_call.call_type
        f == d.function
        name == IF IsSome(f) /\ IsSome(Unwrap(f).name)
                THEN Unwrap(Unwrap(f).name) ELSE tool_call.function.name
        arguments == IF IsSome(f) /\ IsSome(Unwrap(f).arguments)
                     THEN tool_call.function.arguments \o Unwrap(Unwrap(f).arguments)
                     ELSE tool_call.function.arguments
    IN  [grown EXCEPT ![index + 1] =
            [id |-> id, call_type |-> call_type,
             function |-> [name |-> name, arguments |-> arguments]]]

\* one delta fragment merged into the slot at its index
MergeDeltaToolCall(tcs, d) ==
    LET index == IF IsSome(d.index) THEN Unwrap(d.index) ELSE 0
        grown == tcs \o [k \in 1..(index + 1 - Len(tcs)) |-> NewToolCall]
        tool_call == grown[index + 1]
        id == IF IsSome(d.id) /\ Unwrap(d.id) # <<>> THEN Unwrap(d.id) ELSE tool_call.id
        call_type == IF IsSome(d.call_type) THEN Unwrap(d.call_type) ELSE tool_call.call_type
        f == d.function
        name == IF IsSome(f) /\ IsSome(Unwrap(f).name)
                THEN Unwrap(Unwrap(f).name) ELSE tool_call.function.name
        arguments == IF IsSome(f) /\ IsSome(Unwrap(f).arguments)
                     THEN tool_call.function.arguments \o Unwrap(Unwrap(f).arguments)
                     ELSE tool_call.function.arguments
    IN  [grown EXCEPT ![index + 1] =
            [id |-> id, call_type |-> call_type,
             function |-> [name |-> name, arguments |-> arguments]]]

RECURSIVE MergeDeltaToolCalls(_, _)
MergeDeltaToolCalls(tcs, tool_calls) ==
    IF tool_calls = <<>> THEN tcs
    ELSE MergeDeltaToolCalls(MergeDeltaToolCall(tcs, Head(tool_calls)), Tail(tool_calls))

\* history: the (index, arguments) pairs of a delta's fragments, the
\* arguments empty for a fragment that brings none
FragmentsOf(tool_calls) ==
    LET HasArgs(d) == IsSome(d.function) /\ IsSome(Unwrap(d.function).arguments)
    IN  [k \in 1..Len(tool_calls) |->
            <<IF IsSome(tool_calls[k].index) THEN Unwrap(tool_calls[k].index) ELSE 0,
              IF HasArgs(tool_calls[k])
              THEN Unwrap(Unwrap(tool_calls[k].function).arguments) ELSE <<>> >>]

\* ToolCallArgs with null, not {}, for arguments that do not parse
ToolCallArgs_NullOnFailure(arguments) ==
    IF arguments = <<>> THEN JObj(<<>>)
    ELSE LET parsed == ParseValue(arguments)
         IN  IF parsed.ok THEN parsed.value ELSE JNull

\* the args of a pending tool call: {} for empty or unparsable arguments
ToolCallArgs(arguments) ==
    IF arguments = <<>> THEN JObj(<<>>)
    ELSE LET parsed == ParseValue(arguments)
         IN  IF parsed.ok THEN parsed.value ELSE JObj(<<>>)

\* json!({"name": tool_call.function.name, "args": args})
FunctionCallJson(tool_call) ==
    JObj(<< <<Lit.args, ToolCallArgs(tool_call.function.arguments)>>,
            <<Lit.name, JStr(tool_call.function.name)>> >>)

\* the for loop at finish_reason "tool_calls": it breaks at the first slot
\* with a non-empty name
FinishFunctionCall(tcs) ==
    LET named == {i \in 1..Len(tcs) : tcs[i].function.name # <<>>}
    IN  IF named = {} THEN None ELSE Some(FunctionCallJson(tcs[Min(named)]))

\* the arms of `match serde_json::from_str::<ChatCompletionChunk>(json_data)`;
\* st holds tcs (current_tool_calls), out and frags
OpenAIHandleParsed(parsed, json_data, st) ==
    IF ~parsed.ok
    THEN [st EXCEPT !.out = Append(@, ParseErrorItem(parsed.err, json_data))]
    ELSE IF parsed.value.choices = <<>> THEN st
    ELSE LET choice == parsed.value.choices[1]
             delta == choice.delta
             text_content == IF IsSome(delta.content) THEN Unwrap(delta.content) ELSE <<>>
             tool_calls == IF IsSome(delta.tool_calls) THEN Unwrap(delta.tool_calls) ELSE <<>>
             tcs == MergeDeltaToolCalls(st.tcs, tool_calls)
             function_call == IF choice.finish_reason = Some(Lit.tool_calls)
                              THEN FinishFunctionCall(tcs) ELSE None
         IN  [tcs |-> tcs,
              out |-> IF text_content # <<>> \/ IsSome(function_call)
                      THEN Append(st.out, Item(text_content, function_call, "delta"))
                      ELSE st.out,
              frags |-> st.frags \o FragmentsOf(tool_calls)]

\* one line of an event
OpenAIHandleLine(raw_line, st) ==
    LET line == Trim(raw_line)
    IN  IF ~StartsWith(line, Lit.data) THEN st
        ELSE LET json_data == From(line, 6)
             IN  IF Trim(json_data) = <<>> \/ Trim(json_data) = Lit.done THEN st
                 ELSE OpenAIHandleParsed(ParseChatCompletionChunk(json_data), json_data, st)

RECURSIVE OpenAIHandleLines(_, _)
OpenAIHandleLines(lines, st) ==
    IF lines = <<>> THEN st
    ELSE OpenAIHandleLines(Tail(lines), OpenAIHandleLine(Head(lines), st))

\* the while-let loop over the complete events of the buffer
RECURSIVE OpenAIDrain(_, _)
OpenAIDrain(buf, st) ==
    LET found == Find(buf, Lit.lflf)
    IN  IF found = None THEN [buffer |-> buf, st |-> st]
        ELSE LET event_end == Unwrap(found)
                 event == Upto(buf, event_end)
             IN  OpenAIDrain(From(buf, event_end + 2), OpenAIHandleLines(Lines(event), st))

\* Ok(chunk): what the task makes of one chunk
OpenAIOnChunk(buf, tcs, chunk) ==
    IF IsUtf8(chunk) THEN OpenAIDrain(buf \o chunk, [tcs |-> tcs, out |-> <<>>, frags |-> <<>>])
    ELSE [buffer |-> buf, st |-> [tcs |-> tcs, out |-> <<>>, frags |-> <<>>]]

(***************************************************************************)
(* Mock client.                                                            *)
(***************************************************************************)
\* GetNextResponse without the check of the triggers
GetNextResponse_NoTriggers(m, message) ==
    {[response |-> <<77, 111, 99, 107, 32, 76, 76, 77, 58, 32>> (* Mock LLM:  *) \o message, function_call |-> None,
      response_index |-> m.response_index + 1]}

\* get_next_response: the outcomes (response, function_call, response_index
\* after the call).  The function_calls HashMap is iterated in an arbitrary
\* order, so with several matching triggers any of them may be the first.
GetNextResponse(m, message) ==
    LET message_lower == ToLowercase(message)
        matching == {e \in m.function_calls : Contains(message_lower, e.trigger)}
    IN  IF matching # {}
        THEN {[response |-> <<73, 32, 110, 101, 101, 100, 32, 116, 111, 32, 99, 97, 108, 108, 32, 97, 32, 102, 117, 110, 99, 116, 105, 111, 110, 32, 116, 111, 32, 104, 101, 108, 112, 32, 119, 105, 116, 104, 58, 32>> (* I need to call a function to help with:  *) \o message,
               function_call |-> Some(e.call),
               response_index |-> m.response_index] : e \in matching}
        ELSE IF m.responses = <<>>
        THEN {[response |-> <<77, 111, 99, 107, 32, 76, 76, 77, 58, 32, 78, 111, 32, 114, 101, 115, 112, 111, 110, 115, 101, 115, 32, 99, 111, 110, 102, 105, 103, 117, 114, 101, 100>> (* Mock LLM: No responses configured *), function_call |-> None,
               response_index |-> m.response_index]}
        ELSE LET response == m.responses[(m.response_index % Len(m.responses)) + 1]
             IN  {[response |-> IF Contains(ToLowercase(message), <<116, 101, 115, 116>> (* test *))
                                THEN <<77, 111, 99, 107, 32, 76, 76, 77, 32, 40, 84, 101, 115, 116, 32, 77, 111, 100, 101, 41, 58, 32>> (* Mock LLM (Test Mode):  *) \o response
                                ELSE IF Contains(ToLowercase(message), <<101, 114, 114, 111, 114>> (* error *))
                                THEN <<77, 111, 99, 107, 32, 76, 76, 77, 58, 32, 83, 105, 109, 117, 108, 97, 116, 105, 110, 103, 32, 101, 114, 114, 111, 114, 32, 104, 97, 110, 100, 108, 105, 110, 103, 32, 115, 99, 101, 110, 97, 114, 105, 111>> (* Mock LLM: Simulating error handling scenario *)
                                ELSE <<77, 111, 99, 107, 32, 76, 76, 77, 58, 32>> (* Mock LLM:  *) \o response,
                   function_call |-> None,
                   response_index |-> m.response_index + 1]}

\* words.chunks(chunk_size): the words in groups of chunk_size, the last one
\* possibly shorter
WordChunks(words, chunk_size) ==
    [i \in 1..((Len(words) + chunk_size - 1) \div chunk_size) |->
        SubSeq(words, (i - 1) * chunk_size + 1, Min({i * chunk_size, Len(words)}))]

\* SplitIntoChunks with no space before the chunks after the first
SplitIntoChunks_NoSeparator(text) ==
    LET groups == WordChunks(SplitWhitespace(text), 3)
        chunks == [i \in 1..Len(groups) |-> Join(groups[i], <<32>>)]
    IN  IF Len(groups) = 0 THEN <<text>> ELSE chunks

\* split_into_chunks: 3 words per chunk, every chunk but the first led by a
\* space; a text without words is its own single chunk
SplitIntoChunks(text) ==
    LET groups == WordChunks(SplitWhitespace(text), 3)
        chunks == [i \in 1..Len(groups) |->
                      (IF i = 1 THEN <<>> ELSE <<32>>) \o Join(groups[i], <<32>>)]
    IN  IF Len(groups) = 0 THEN <<text>> ELSE chunks

\* MockItems with the function call attached to every chunk
MockItems_CallOnEveryChunk(chunks, function_call) ==
    [i \in 1..Len(chunks) |-> Item(chunks[i], function_call, "mock")]

\* the items the spawned task sends: chunk i with the function call on the
\* last chunk only
MockItems(chunks, function_call) ==
    [i \in 1..Len(chunks) |->
        Item(chunks[i], IF i = Len(chunks) THEN function_call ELSE None, "mock")]

\* add_function_call_response: the trigger is stored lowercased; a trigger
\* already present is replaced
AddFunctionCallResponse(m, trigger_text, function_call) ==
    LET key == ToLowercase(trigger_text)
    IN  [m EXCEPT !.function_calls =
            {e \in @ : e.trigger # key} \cup {[trigger |-> key, call |-> function_call]}]

\* MockLLMClient::with_responses(responses) (new() then the responses replaced)
MockWithResponses(responses) ==
    [responses |-> responses, response_index |-> 0, function_calls |-> {}]

\* the mock clients of the model, as constructed and set up by the caller:
\* with the responses "one two  three four" and "ok", with none, with one
\* empty response, and with "ok" and the triggers "Weather" and "hello"
MockClients ==
    {MockWithResponses(<<<<111, 110, 101, 32, 116, 119, 111, 32, 32, 116, 104, 114, 101, 101, 32, 102, 111, 117, 114>> (* one two  three four *), <<111, 107>> (* ok *)>>),
     MockWithResponses(<<>>),
     MockWithResponses(<< <<>> >>),
     AddFunctionCallResponse(
         AddFunctionCallResponse(MockWithResponses(<<<<111, 107>> (* ok *)>>), <<87, 101, 97, 116, 104, 101, 114>> (* Weather *), CallValue(T.f)),
         <<104, 101, 108, 108, 111>> (* hello *), CallValue(T.g))}

\* the user messages given to the mock client: "Hello", "weather test",
\* "hello, weather?", "an error" and the empty message
MockMessages ==
    {<<72, 101, 108, 108, 111>> (* Hello *), <<119, 101, 97, 116, 104, 101, 114, 32, 116, 101, 115, 116>> (* weather test *), <<104, 101, 108, 108, 111, 44, 32, 119, 101, 97, 116, 104, 101, 114, 63>> (* hello, weather? *), <<97, 110, 32, 101, 114, 114, 111, 114>> (* an error *), <<>>}

(***************************************************************************)
(* Conversation store: the history and the system instruction of a client, *)
(* and the requests built from them.  Roles are the strings of the source. *)
(***************************************************************************)
\* The history holds at most MaxHistory turns.
MaxHistory == 3

\* reqwest's StatusCode::is_success
IsSuccess(status) == status \in 200..299

\* u64/i64 Display
RECURSIVE Decimal(_)
Decimal(n) == IF n < 10 THEN <<48 + n>> ELSE Decimal(n \div 10) \o <<48 + (n % 10)>>

\* serde_json::to_string / Value::to_string: the compact JSON text of a value
RECURSIVE ToJsonString(_)
ToJsonString(v) ==
    CASE v.t = "null" -> <<110, 117, 108, 108>> (* null *)
      [] v.t = "bool" -> IF v.b THEN <<116, 114, 117, 101>> (* true *) ELSE <<102, 97, 108, 115, 101>> (* false *)
      [] v.t = "num" -> Decimal(v.n)
      [] v.t = "str" -> <<34>> \o JsonEscape(v.s) \o <<34>>
      [] v.t = "obj" ->
            <<123>>
            \o Join([i \in 1..Len(v.m) |->
                        <<34>> \o JsonEscape(v.m[i][1]) \o <<34, 58>> \o ToJsonString(v.m[i][2])],
                    <<44>>)
            \o <<125>>

\* struct Part of gemini.rs and struct Message of openai.rs
Part(text, function_call, function_response) ==
    [text |-> text, function_call |-> function_call, function_response |-> function_response]
Message(role, content, name, tool_calls, tool_call_id) ==
    [role |-> role, content |-> content, name |-> name, tool_calls |-> tool_calls,
     tool_call_id |-> tool_call_id]

\* FunctionResponse named by its id
FunctionResponse_NamedById(name, timestamp, response) ==
    [id |-> name \o <<45>> \o timestamp, name |-> name \o <<45>> \o timestamp,
     response |-> response]

\* struct FunctionResponse as execute_function, execute_tool and the MCP
\* manager build it: the id is format!("{}-{}", name, timestamp_millis)
FunctionResponse(name, timestamp, response) ==
    [id |-> name \o <<45>> \o timestamp, name |-> name, response |-> response]

\* the turn add_user_message pushes
UserTurn(b, message) ==
    CASE b = "gemini" -> [role |-> "user", parts |-> <<Part(Some(message), None, None)>>]
      [] b = "openai" -> Message("user", message, None, None, None)
      [] b = "mock" -> [role |-> "user", content |-> message, function_call |-> None]

\* FunctionTurn with the payload of the response left out
FunctionTurn_WithoutResponse(b, function_response) ==
    CASE b = "gemini" ->
            [role |-> "user",
             parts |-> <<Part(None, None,
                              Some(JObj(<< <<Lit.id, JStr(function_response.id)>>,
                                           <<Lit.name, JStr(function_response.name)>>,
                                           <<Lit.response, JNull>> >>)))>>]
      [] b = "openai" ->
            Message("tool", ToJsonString(JNull),
                    Some(function_response.name), None, Some(function_response.id))
      [] b = "mock" ->
            [role |-> "function", content |-> ToJsonString(JNull), function_call |-> None]

\* the turn add_function_response pushes
FunctionTurn(b, function_response) ==
    CASE b = "gemini" ->
            [role |-> "user",
             parts |-> <<Part(None, None,
                              Some(JObj(<< <<Lit.id, JStr(function_response.id)>>,
                                           <<Lit.name, JStr(function_response.name)>>,
                                           <<Lit.response, function_response.response>> >>)))>>]
      [] b = "openai" ->
            Message("tool", ToJsonString(function_response.response),
                    Some(function_response.name), None, Some(function_response.id))
      [] b = "mock" ->
            [role |-> "function", content |-> ToJsonString(function_response.response),
             function_call |-> None]

\* the turn add_model_response pushes.  For OpenAIClient the ChatClient
\* method first makes one ToolCall of the function call, with a fresh id
\* "call_<timestamp>", the name ("unknown" without a string "name") and the
\* JSON text of "args" (empty without "args")
ModelTurn(b, response, function_call, timestamp) ==
    LET fc == Unwrap(function_call)
        Get(key) == IF fc.t = "obj" /\ \E i \in 1..Len(fc.m) : fc.m[i][1] = key
                    THEN Some(fc.m[CHOOSE i \in 1..Len(fc.m) : fc.m[i][1] = key][2])
                    ELSE None
        name == Get(Lit.name)
        args == Get(Lit.args)
        tool_calls ==
            IF function_call = None THEN None
            ELSE Some(<<[id |-> Lit.call_ \o timestamp,
                        call_type |-> "function",
                        function |-> [name |-> IF IsSome(name) /\ Unwrap(name).t = "str"
                                               THEN Unwrap(name).s ELSE Lit.unknown,
                                      arguments |-> IF IsSome(args)
                                                    THEN ToJsonString(Unwrap(args))
                                                    ELSE <<>>]]>>)
    IN  CASE b = "gemini" ->
                [role |-> "model",
                 parts |-> (IF response # <<>> THEN <<Part(Some(response), None, None)>>
                            ELSE <<>>)
                           \o (IF IsSome(function_call) THEN <<Part(None, function_call, None)>>
                               ELSE <<>>)]
          [] b = "openai" -> Message("assistant", response, None, tool_calls, None)
          [] b = "mock" ->
                [role |-> "assistant", content |-> response, function_call |-> function_call]

\* BuildRequest with a user turn pushed whatever the message
BuildRequest_AlwaysUser(b, system, history, message) ==
    LET user == <<UserTurn(b, message)>>
    IN  IF b = "gemini"
        THEN [contents |-> history \o user, system_instruction |-> system]
        ELSE [messages |-> (IF IsSome(system)
                            THEN <<Message("system", Unwrap(system), None, None, None)>>
                            ELSE <<>>)
                           \o history \o user]

\* the request send_message and send_message_stream build: for Gemini the
\* contents with the system instruction beside them, for OpenAI the messages
\* of build_messages
BuildRequest(b, system, history, message) ==
    LET user == IF message # <<>> THEN <<UserTurn(b, message)>> ELSE <<>>
    IN  IF b = "gemini"
        THEN [contents |-> history \o user, system_instruction |-> system]
        ELSE [messages |-> (IF IsSome(system)
                            THEN <<Message("system", Unwrap(system), None, None, None)>>
                            ELSE <<>>)
                           \o history \o user]

\* what the caller, the clock and the servers give the client: the system
\* prompts, the user messages, the texts of send_message(_stream) and of the
\* model, the function calls and function responses, the timestamps, the
\* statuses of the HTTP responses, and the response bodies of send_message
\* as response.json() sees them: one that does not parse, one without
\* candidates (Gemini) or choices (OpenAI), and ones with the text fields of
\* the first candidate's parts (Gemini) or the texts of the first choice's
\* content (OpenAI)
Caller ==
    LET Timestamps == {T.TimestampMillis}
        Unusable == {[parsed |-> FALSE], [parsed |-> TRUE, first |-> None]}
    IN  [Prompts |-> {T.A},
         Messages |-> {T.Hi},
         Texts |-> {<<>>, T.Hi},
         FunctionCalls |-> {None, Some(CallValue(T.f))},
         Timestamps |-> Timestamps,
         FunctionResponses |->
             {FunctionResponse(T.f, ts, JObj(<< <<Lit.result, JStr(T.Hi)>> >>)) :
                 ts \in Timestamps},
         Statuses |-> {200, 204, 404, 500},
         GeminiReplies |->
             Unusable \cup {[parsed |-> TRUE, first |-> Some(texts)] :
                               texts \in {<<>>, <<None>>, <<None, Some(T.A), Some(T.B)>>}},
         OpenAIReplies |->
             Unusable \cup {[parsed |-> TRUE, first |-> Some(texts)] :
                               texts \in {<<T.Hi>>, <<T.A, T.B>>}}]

\* the caller is free to call the client: no call of send_message or
\* send_message_stream is in flight (they borrow the client), and the caller
\* is not draining a stream (run_app receives until the channel closes or it
\* drops the receiver)
CallerFree == call = None /\ (~rxAlive \/ closedSeen)

\* load_system_prompt: Gemini stores a SystemInstruction of one text part,
\* OpenAI and the mock the text
LoadSystemPrompt ==
    /\ CallerFree
    /\ result' = None
    /\ \E prompt_content \in Caller.Prompts :
          system_instruction' =
              IF backend = "gemini"
              THEN Some([parts |-> <<Part(Some(prompt_content), None, None)>>])
              ELSE Some(prompt_content)
    /\ UNCHANGED <<streamVars, conversation_history, call, toolVars, appVars, loopVars>>

\* Push with the turn put in front of the history
Push_Front(turn) ==
    /\ CallerFree
    /\ result' = None
    /\ Len(conversation_history) < MaxHistory
    /\ conversation_history' = <<turn>> \o conversation_history
    /\ UNCHANGED <<streamVars, system_instruction, call, toolVars, appVars, loopVars>>

\* push of one turn on the history
Push(turn) ==
    /\ CallerFree
    /\ result' = None
    /\ Len(conversation_history) < MaxHistory
    /\ conversation_history' = Append(conversation_history, turn)
    /\ UNCHANGED <<streamVars, system_instruction, call, toolVars, appVars, loopVars>>

AddUserMessage == \E message \in Caller.Messages : Push(UserTurn(backend, message))

AddFunctionResponse ==
    \E function_response \in Caller.FunctionResponses : Push(FunctionTurn(backend, function_response))

\* add_model_response with the id of the first tool call made of the clock
\* in place of one made of the call
AddModelResponse ==
    \E response \in Caller.Texts, function_call \in Caller.FunctionCalls,
       timestamp \in Caller.Timestamps :
        Push(ModelTurn(backend, response, function_call, timestamp))

\* ClearConversation that keeps the first turn
ClearConversation_KeepsFirst ==
    /\ CallerFree
    /\ result' = None
    /\ conversation_history' = SubSeq(conversation_history, 1, Min({1, Len(conversation_history)}))
    /\ mock' = IF backend = "mock" THEN [mock EXCEPT !.response_index = 0] ELSE mock
    /\ UNCHANGED <<pc, backend, body, pos, buffer, chunk_count, current_tool_calls, outbox,
                   chan, rxAlive, received, closedSeen, sent, streamError, fragments,
                   system_instruction, call, toolVars, appVars, loopVars>>

\* ClearConversation that also forgets the system instruction
ClearConversation_ForgetsSystem ==
    /\ CallerFree
    /\ result' = None
    /\ conversation_history' = <<>>
    /\ system_instruction' = None
    /\ mock' = IF backend = "mock" THEN [mock EXCEPT !.response_index = 0] ELSE mock
    /\ UNCHANGED <<pc, backend, body, pos, buffer, chunk_count, current_tool_calls, outbox,
                   chan, rxAlive, received, closedSeen, sent, streamError, fragments,
                   call, toolVars, appVars, loopVars>>

\* clear_conversation; the mock client also starts its responses over
ClearConversation ==
    /\ CallerFree
    /\ result' = None
    /\ conversation_history' = <<>>
    /\ mock' = IF backend = "mock" THEN [mock EXCEPT !.response_index = 0] ELSE mock
    /\ UNCHANGED <<pc, backend, body, pos, buffer, chunk_count, current_tool_calls, outbox,
                   chan, rxAlive, received, closedSeen, sent, streamError, fragments,
                   system_instruction, call, toolVars, appVars, loopVars>>

\* send_message / send_message_stream of the Gemini and OpenAI clients up to
\* `.send().await`: the request is built and sent
SendRequest(kind) ==
    /\ CallerFree
    /\ result' = None
    /\ backend \in {"gemini", "openai"}
    /\ \E message \in Caller.Texts :
          call' = Some([kind |-> kind, message |-> message,
                        request |-> BuildRequest(backend, system_instruction,
                                                 conversation_history, message)])
    /\ UNCHANGED <<streamVars, conversation_history, system_instruction, toolVars, appVars, loopVars>>

SendMessageRequest == SendRequest("send_message")
SendMessageStreamRequest == pc = "idle" /\ SendRequest("send_message_stream")

\* Err(anyhow!("API request failed: {}", error_text)): the error of a status
\* that is not 2xx
ApiRequestFailed == [ok |-> FALSE, error |-> Lit.api_request_failed \o T.ErrorText]

\* send_message once the response is there: Err on a status that is not 2xx
\* and on a body that does not parse or has no candidate or choice; Gemini
\* returns the first text of the parts (Err without parts or without a
\* text), OpenAI the texts of the content joined
SendMessageResult(b, status, reply) ==
    IF ~IsSuccess(status) THEN ApiRequestFailed
    ELSE IF ~reply.parsed THEN [ok |-> FALSE, error |-> T.SerdeError]
    ELSE IF reply.first = None THEN [ok |-> FALSE, error |-> Lit.no_response]
    ELSE LET first == Unwrap(reply.first)
             texts == SelectSeq(first, IsSome)
         IN  IF b = "openai" THEN [ok |-> TRUE, text |-> Join(first, <<>>)]
             ELSE IF first = <<>> THEN [ok |-> FALSE, error |-> Lit.empty_response]
             ELSE IF texts = <<>> THEN [ok |-> FALSE, error |-> Lit.no_text_content]
             ELSE [ok |-> TRUE, text |-> Unwrap(texts[1])]

SendMessageResponse(status, reply) ==
    /\ call # None
    /\ Unwrap(call).kind = "send_message"
    /\ result' = Some(SendMessageResult(backend, status, reply))
    /\ call' = None
    /\ UNCHANGED <<streamVars, conversation_history, system_instruction, toolVars, appVars, loopVars>>

SendMessageReturn ==
    \E status \in Caller.Statuses,
       reply \in IF backend = "gemini" THEN Caller.GeminiReplies ELSE Caller.OpenAIReplies :
        SendMessageResponse(status, reply)

\* ChatClient::send_message of MockLLMClient: it works on a clone of the
\* client, so the client's own history and response_index stay as they are
MockSendMessage ==
    /\ CallerFree
    /\ backend = "mock"
    /\ \E message \in MockMessages :
         \E r \in GetNextResponse(mock, message) :
            result' = Some([ok |-> TRUE, text |-> r.response])
    /\ UNCHANGED <<streamVars, conversation_history, system_instruction, call, toolVars, appVars, loopVars>>

(***************************************************************************)
(* FunctionExecutor: the dispatcher of tool calls (function_calling.rs),   *)
(* the registry of built-in tools (tools/mod.rs) and the MCP manager       *)
(* (mcp_client.rs).                                                        *)
(***************************************************************************)
\* Value::get(key) on an object; None for a missing key and for a value that
\* is no object
ValueGet(v, key) ==
    IF v.t # "obj" THEN None
    ELSE LET at == {i \in 1..Len(v.m) : v.m[i][1] = key}
         IN  IF at = {} THEN None ELSE Some(v.m[CHOOSE i \in at : TRUE][2])

\* the calls, the MCP managers and the outcomes of the environment the
\* executor is run with
Dispatch ==
    LET Object(key, text) == JObj(<< <<key, JStr(text)>> >>)
        Bool(b) == [t |-> "bool", b |-> b]
    IN  [\* two of the tools ToolRegistry::new registers
         RegistryTools |-> {Lit.save_memory, Lit.google_web_search},
         Names |-> {Lit.shell_command, Lit.save_memory, Lit.google_web_search, T.fetch, T.f},
         Args |-> {JObj(<<>>), Object(Lit.command, T.ls), Object(Lit.fact, T.Hi),
                   Object(Lit.fact, T.Blank), Object(Lit.query, T.Hi)},
         \* no manager, a manager without tools, one whose servers offer a tool
         \* of their own, and one whose servers offer the built-in names too
         Managers |-> {None, Some({}), Some({T.fetch}),
                       Some({T.fetch, Lit.save_memory, Lit.shell_command})},
         \* serde_json::to_value of the ToolResult a tool returns
         ToolResults |-> {JObj(<< <<Lit.llm_content, JStr(T.Hi)>>,
                                  <<Lit.return_display, JStr(T.Hi)>>,
                                  <<Lit.summary, JNull>> >>)},
         \* exit code, stdout and stderr of the shell
         Outputs |-> {[code |-> 0, stdout |-> T.Hi, stderr |-> <<>>],
                      [code |-> 1, stdout |-> <<>>, stderr |-> T.ErrorText]},
         True |-> Bool(TRUE),
         False |-> Bool(FALSE)]

\* Tool::validate_params of save_memory and google_web_search: serde reads
\* the one String field of the parameters (an object whose members are
\* strings here), then the trimmed text must not be empty.  None is Ok(()),
\* Some(e) is the error
validate_params(name, params) ==
    LET field == IF name = Lit.save_memory THEN Lit.fact ELSE Lit.query
        value == ValueGet(params, field)
    IN  IF value = None THEN Some(Lit.missing_field \o <<96>> \o field \o <<96>>)
        ELSE IF Trim(Unwrap(value).s) = <<>>
             THEN Some(IF name = Lit.save_memory THEN Lit.fact_empty ELSE Lit.query_empty)
        ELSE None

\* FunctionExecutor::new, then with_mcp_manager when a manager is given
ExecutorWith(manager) ==
    /\ mcp_manager = manager
    /\ executing = None
    /\ tool_pc = "idle"
    /\ invoked = <<>>
    /\ function_result = None

\* the Vecs a HashMap of the keys S may give when it is iterated: its
\* elements once each, in any order
Orders(S) ==
    {order \in [1..Cardinality(S) -> S] :
        \A i, j \in 1..Cardinality(S) : order[i] = order[j] => i = j}

\* the names of FunctionExecutor::get_available_tools: the definition of
\* shell_command, extended with the tools of the registry, extended with the
\* tools of the MCP manager if there is one; the two HashMaps are iterated in
\* the orders given
get_available_tools(registry_tools, mcp_tools) ==
    <<Lit.shell_command>> \o registry_tools
        \o (IF mcp_manager # None THEN mcp_tools ELSE <<>>)

\* what execute_function invoked: an operation on the tool of a name
Invocation(op, name) == [op |-> op, name |-> name]

\* ToolRegistry::execute_tool up to its await, calling execute whether the
\* parameters are valid or not
ExecuteTool_NoValidation(fc) ==
    /\ invoked' = <<Invocation("execute", fc.name)>>
    /\ tool_pc' = "execute"
    /\ function_result' = None

\* ToolRegistry::execute_tool up to its await: validate_params, whose error
\* is returned, then execute
ExecuteTool(fc) ==
    LET invalid == validate_params(fc.name, fc.args)
    IN  IF invalid # None
        THEN /\ invoked' = <<Invocation("validate_params", fc.name)>>
             /\ tool_pc' = "idle"
             /\ function_result' = Some([ok |-> FALSE, error |-> Unwrap(invalid)])
        ELSE /\ invoked' = <<Invocation("validate_params", fc.name),
                             Invocation("execute", fc.name)>>
             /\ tool_pc' = "execute"
             /\ function_result' = None

\* execute_function giving every name that is not a built-in tool's to the
\* MCP manager when there is one, without asking whether it has the tool
ExecuteFunction_UnknownToMcp(fc) ==
    /\ tool_pc = "idle"
    /\ executing' = Some(fc)
    /\ IF fc.name = Lit.shell_command
       THEN LET command == ValueGet(fc.args, Lit.command)
            IN  IF command # None /\ Unwrap(command).t = "str"
                THEN /\ invoked' = <<Invocation("sh", fc.name)>>
                     /\ tool_pc' = "sh"
                     /\ function_result' = None
                ELSE /\ invoked' = <<>>
                     /\ tool_pc' = "idle"
                     /\ function_result' = Some([ok |-> FALSE, error |-> Lit.missing_command])
       ELSE IF fc.name \in Dispatch.RegistryTools
       THEN ExecuteTool(fc)
       ELSE IF mcp_manager # None
       THEN /\ invoked' = <<Invocation("call_tool", fc.name)>>
            /\ tool_pc' = "call_tool"
            /\ function_result' = None
       ELSE /\ invoked' = <<>>
            /\ tool_pc' = "idle"
            /\ function_result' = Some([ok |-> FALSE, error |-> Lit.unknown_function \o fc.name])
    /\ UNCHANGED <<streamVars, storeVars, appVars, loopVars, mcp_manager>>

\* execute_function asking the MCP manager before the registry
ExecuteFunction_McpFirst(fc) ==
    /\ tool_pc = "idle"
    /\ executing' = Some(fc)
    /\ IF mcp_manager # None /\ fc.name \in Unwrap(mcp_manager)
       THEN /\ invoked' = <<Invocation("call_tool", fc.name)>>
            /\ tool_pc' = "call_tool"
            /\ function_result' = None
       ELSE IF fc.name = Lit.shell_command
       THEN LET command == ValueGet(fc.args, Lit.command)
            IN  IF command # None /\ Unwrap(command).t = "str"
                THEN /\ invoked' = <<Invocation("sh", fc.name)>>
                     /\ tool_pc' = "sh"
                     /\ function_result' = None
                ELSE /\ invoked' = <<>>
                     /\ tool_pc' = "idle"
                     /\ function_result' = Some([ok |-> FALSE, error |-> Lit.missing_command])
       ELSE IF fc.name \in Dispatch.RegistryTools
       THEN ExecuteTool(fc)
       ELSE /\ invoked' = <<>>
            /\ tool_pc' = "idle"
            /\ function_result' = Some([ok |-> FALSE, error |-> Lit.unknown_function \o fc.name])
    /\ UNCHANGED <<streamVars, storeVars, appVars, loopVars, mcp_manager>>

\* execute_function up to its first await: the arm of "shell_command", then
\* the registry of built-in tools, then the MCP manager if there is one, then
\* the error
ExecuteFunction(fc) ==
    /\ tool_pc = "idle"
    /\ executing' = Some(fc)
    /\ IF fc.name = Lit.shell_command
       THEN LET command == ValueGet(fc.args, Lit.command)
            IN  IF command # None /\ Unwrap(command).t = "str"
                THEN /\ invoked' = <<Invocation("sh", fc.name)>>
                     /\ tool_pc' = "sh"
                     /\ function_result' = None
                ELSE /\ invoked' = <<>>
                     /\ tool_pc' = "idle"
                     /\ function_result' = Some([ok |-> FALSE, error |-> Lit.missing_command])
       ELSE IF fc.name \in Dispatch.RegistryTools
       THEN ExecuteTool(fc)
       ELSE IF mcp_manager # None /\ fc.name \in Unwrap(mcp_manager)
       THEN /\ invoked' = <<Invocation("call_tool", fc.name)>>
            /\ tool_pc' = "call_tool"
            /\ function_result' = None
       ELSE /\ invoked' = <<>>
            /\ tool_pc' = "idle"
            /\ function_result' = Some([ok |-> FALSE, error |-> Lit.unknown_function \o fc.name])
    /\ UNCHANGED <<streamVars, storeVars, appVars, loopVars, mcp_manager>>

\* the caller calls execute_function with a call the model made
CallFunction ==
    \E name \in Dispatch.Names, args \in Dispatch.Args :
        ExecuteFunction([name |-> name, args |-> args])

\* execute_function returns what its await gave
Return(r) ==
    /\ tool_pc' = "idle"
    /\ function_result' = Some(r)
    /\ UNCHANGED <<streamVars, storeVars, appVars, loopVars, mcp_manager, executing, invoked>>

\* the rest of ToolRegistry::execute_tool: execute fails, or its ToolResult
\* is wrapped into the FunctionResponse
ToolExecuteReturn ==
    /\ tool_pc = "execute"
    /\ \/ Return([ok |-> FALSE, error |-> T.IoError])
       \/ \E value \in Dispatch.ToolResults, ts \in Caller.Timestamps :
            Return([ok |-> TRUE,
                    value |-> FunctionResponse(Unwrap(executing).name, ts, value)])

\* the rest of McpClientManager::execute_tool: call_tool fails, or its result
\* is wrapped, marked as a failure when is_error is set
McpCallToolReturn ==
    /\ tool_pc = "call_tool"
    /\ \/ Return([ok |-> FALSE, error |-> T.TransportError])
       \/ \E is_error \in BOOLEAN, ts \in Caller.Timestamps :
            Return([ok |-> TRUE,
                    value |-> FunctionResponse(Unwrap(executing).name, ts,
                        IF is_error
                        THEN JObj(<< <<Lit.content, JStr(T.Hi)>>,
                                     <<Lit.error, JStr(Lit.tool_execution_failed)>>,
                                     <<Lit.success, Dispatch.False>> >>)
                        ELSE JObj(<< <<Lit.content, JStr(T.Hi)>>,
                                     <<Lit.success, Dispatch.True>> >>))])

\* the rest of execute_shell_command: the shell cannot be started, or its
\* output is wrapped under the name "shell_command"
ShellCommandReturn ==
    /\ tool_pc = "sh"
    /\ \/ Return([ok |-> FALSE, error |-> T.IoError])
       \/ \E out \in Dispatch.Outputs, ts \in Caller.Timestamps :
            Return([ok |-> TRUE,
                    value |->
                        [id |-> Unwrap(executing).name \o <<45>> \o ts,
                         name |-> Lit.shell_command,
                         response |->
                            JObj(<< <<Lit.exit_code, JNum(out.code)>>,
                                    <<Lit.output,
                                      JStr(IF out.code = 0 THEN Lit.command_ok \o out.stdout
                                           ELSE Lit.command_failed \o <<83, 111, 109, 101, 40>> (* Some( *)
                                                \o Decimal(out.code) \o <<41>>
                                                \o Lit.stdout_label \o out.stdout
                                                \o Lit.stderr_label \o out.stderr)>>,
                                    <<Lit.stderr, JStr(out.stderr)>>,
                                    <<Lit.stdout, JStr(out.stdout)>>,
                                    <<Lit.success, IF out.code = 0 THEN Dispatch.True
                                                   ELSE Dispatch.False>> >>)]])

(***************************************************************************)
(* ResponseCard: the bordered card and the wrapping of its content.        *)
(***************************************************************************)
\* A content is made of at most MaxTokens tokens.
MaxTokens == 3

\* the width of ResponseCard::new, the widths given to with_width, and the
\* contents displayed: the texts of at most MaxTokens tokens, a token being
\* one of the words "a", "bb" and "cccccc", a space or a line end
Card ==
    LET Tokens == {<<97>>, <<98, 98>> (* bb *), <<99, 99, 99, 99, 99, 99>> (* cccccc *), <<32>>, <<10>>}
    IN  [Width |-> 120,
         Widths |-> {6, 8, 9},
         Contents |-> {Join(tokens, <<>>) :
                          tokens \in UNION {[1..n -> Tokens] : n \in 0..MaxTokens}}]

\* the loop of wrap_text over the words, and the push of the last line
RECURSIVE WrapWords(_, _, _, _)
WrapWords(words, width, current_line, lines) ==
    IF words = <<>>
    THEN IF current_line # <<>> THEN Append(lines, current_line) ELSE lines
    ELSE LET word == Head(words)
         IN  IF current_line = <<>>
             THEN WrapWords(Tail(words), width, word, lines)
             ELSE IF Len(current_line) + 1 + Len(word) <= width
             THEN WrapWords(Tail(words), width, current_line \o <<32>> \o word, lines)
             ELSE WrapWords(Tail(words), width, word, Append(lines, current_line))

\* wrap_text: a text that fits is its own line; a longer one is rebuilt from
\* its words
WrapText(text, width) ==
    IF Len(text) <= width THEN <<text>>
    ELSE WrapWords(SplitWhitespace(text), width, <<>>, <<>>)

\* print_content: the calls of wrap_text it makes, one for every line of the
\* content that is not empty, each with the lines it returned
PrintContent(width, content) ==
    LET content_width == IF width >= 4 THEN width - 4 ELSE 0  \* saturating_sub(4)
        lines == SelectSeq(Lines(content), LAMBDA line : line # <<>>)
    IN  [k \in 1..Len(lines) |->
            [text |-> lines[k], width |-> content_width,
             lines |-> WrapText(lines[k], content_width)]]

\* with_width
WithWidth ==
    /\ \E width \in Card.Widths : card' = [card EXCEPT !.width = width]
    /\ UNCHANGED <<streamVars, storeVars, toolVars, loopVars, app, tasks>>

\* display_complete: header, content and footer
DisplayComplete ==
    /\ \E content \in Card.Contents :
          card' = [card EXCEPT !.wrapped = PrintContent(card.width, content)]
    /\ UNCHANGED <<streamVars, storeVars, toolVars, loopVars, app, tasks>>

(***************************************************************************)
(* run_app of main.rs: the keys of the terminal UI and the task spawned    *)
(* for every message entered, which receives the stream and falls back to  *)
(* send_message.                                                           *)
(***************************************************************************)
\* run_app spawns at most MaxTasks tasks.
MaxTasks == 2

\* struct Message of ui.rs, without its timestamp
UiMessage(content, message_type) == [content |-> content, message_type |-> message_type]

\* the texts of main.rs and ui.rs, the keys typed, the streams the decode
\* task of the Gemini client delivers and the outcomes of send_message
Ui ==
    LET Text(text) == GeminiPartItems(<<GPart(Some(text), None)>>)
        StreamError == Item(Lit.stream_error \o T.TransportError, None, "stream_error")
    IN  [welcome |-> <<87, 101, 108, 99, 111, 109, 101, 32, 116, 111, 32, 71, 101, 109, 105, 110, 105, 32, 67, 104, 97, 116, 32, 67, 76, 73, 33, 32, 80, 114, 101, 115, 115, 32, 39, 105, 39, 32, 116, 111, 32, 115, 116, 97, 114, 116, 32, 116, 121, 112, 105, 110, 103, 44, 32, 39, 113, 39, 32, 116, 111, 32, 113, 117, 105, 116, 44, 32, 39, 99, 39, 32, 116, 111, 32, 99, 108, 101, 97, 114, 32, 99, 104, 97, 116, 46>> (* Welcome to Gemini Chat CLI! Press 'i' to start typing, 'q' to quit, 'c' to clear chat. *),
         json_parse_error |-> <<74, 83, 79, 78, 32, 112, 97, 114, 115, 101, 32, 101, 114, 114, 111, 114, 58>> (* JSON parse error: *),
         stream_error |-> <<83, 116, 114, 101, 97, 109, 32, 101, 114, 114, 111, 114, 58>> (* Stream error: *),
         streaming_error |-> <<83, 116, 114, 101, 97, 109, 105, 110, 103, 32, 101, 114, 114, 111, 114, 58, 32>> (* Streaming error:  *),
         falling_back |-> <<46, 32, 70, 97, 108, 108, 105, 110, 103, 32, 98, 97, 99, 107, 32, 116, 111, 32, 114, 101, 103, 117, 108, 97, 114, 32, 65, 80, 73, 46>> (* . Falling back to regular API. *),
         fallback_api_error |-> <<70, 97, 108, 108, 98, 97, 99, 107, 32, 65, 80, 73, 32, 101, 114, 114, 111, 114, 58, 32>> (* Fallback API error:  *),
         streaming_failed |-> <<83, 116, 114, 101, 97, 109, 105, 110, 103, 32, 102, 97, 105, 108, 101, 100, 58, 32>> (* Streaming failed:  *),
         fallback_failed |-> <<46, 32, 70, 97, 108, 108, 98, 97, 99, 107, 32, 102, 97, 105, 108, 101, 100, 58, 32>> (* . Fallback failed:  *),
         \* the lines the user types: "Hi", and a blank one
         Inputs |-> {T.Hi, T.Blank},
         \* two texts; a text, then a failure of the transport; a text of
         \* white space, then a payload serde rejects; a text of the model
         \* that reads like an error, then another text
         Streams |-> {Text(T.Hi) \o Text(T.A),
                      Text(T.Hi) \o <<StreamError>>,
                      Text(T.Blank) \o <<ParseErrorItem(T.SerdeError, T.A)>>,
                      Text(Lit.stream_error \o T.Hi) \o Text(T.A)},
         Replies |-> {[ok |-> TRUE, text |-> T.A],
                      [ok |-> FALSE, error |-> Lit.api_request_failed \o T.ErrorText]}]

\* App::new, and no task spawned yet; ResponseCard::new, nothing displayed yet
AppNew ==
    /\ app = [input |-> <<>>, input_mode |-> "Normal",
              messages |-> <<UiMessage(Ui.welcome, "Assistant")>>,
              streaming_message |-> None, is_loading |-> FALSE]
    /\ tasks = <<>>
    /\ card = [width |-> Card.Width, wrapped |-> <<>>]

\* the test run_app makes on every chunk it receives
IsErrorChunk(chunk) ==
    StartsWith(chunk, Ui.json_parse_error) \/ StartsWith(chunk, Ui.stream_error)

\* the key 'i' in InputMode::Normal starts editing (the keys that scroll,
\* clear the messages shown and quit are left out)
NormalKey ==
    /\ app.input_mode = "Normal"
    /\ app' = [app EXCEPT !.input_mode = "Editing"]
    /\ UNCHANGED <<streamVars, storeVars, toolVars, loopVars, tasks, card>>

\* the keys of InputMode::Editing other than Enter: the characters of a
\* line, typed into the empty input as one step, and Esc
EditingKey ==
    /\ app.input_mode = "Editing"
    /\ \/ \E line \in Ui.Inputs :
            /\ app.input = <<>>
            /\ app' = [app EXCEPT !.input = line]
       \/ app' = [app EXCEPT !.input_mode = "Normal"]
    /\ UNCHANGED <<streamVars, storeVars, toolVars, loopVars, tasks, card>>

\* the locals of a task spawned for an input; `got` is the history of the
\* items rx.recv() gave it
Task(input) ==
    [input |-> input, pc |-> "call", rx |-> <<>>, accumulated_response |-> <<>>,
     received_any_data |-> FALSE, error |-> None, got |-> <<>>]

\* Enter in InputMode::Editing with an input that is not blank: the message
\* is shown and a task is spawned that calls send_message_stream
EnterKey ==
    /\ app.input_mode = "Editing"
    /\ Trim(app.input) # <<>>
    /\ Len(tasks) < MaxTasks
    /\ app' = [app EXCEPT !.messages = Append(@, UiMessage(app.input, "User")),
                          !.input = <<>>,
                          !.input_mode = "Normal",
                          !.is_loading = TRUE]
    /\ tasks' = Append(tasks, Task(app.input))
    /\ UNCHANGED <<streamVars, storeVars, toolVars, loopVars, card>>

\* where the task goes when its receive loop is over: to the final message
\* if it has text that is not blank, to the fallback otherwise
AfterLoop(received_any_data, accumulated_response) ==
    IF received_any_data /\ Trim(accumulated_response) # <<>> THEN "finalize" ELSE "fallback"

\* client.send_message_stream(&input).await returns to task t: Ok(rx), or
\* the error, after which the task calls send_message
StreamReturns(t) ==
    /\ tasks[t].pc = "call"
    /\ \/ \E items \in Ui.Streams : tasks' = [tasks EXCEPT ![t].pc = "recv", ![t].rx = items]
       \/ tasks' = [tasks EXCEPT ![t].pc = "fallback",
                                 ![t].error = Some(Lit.api_request_failed \o T.ErrorText)]
    /\ UNCHANGED <<streamVars, storeVars, toolVars, loopVars, app, card>>

\* rx.recv().await gives task t a chunk: an error chunk is shown as an error
\* and ends the loop, any other is appended to the text shown while streaming
ReceiveChunk(t) ==
    /\ tasks[t].pc = "recv"
    /\ tasks[t].rx # <<>>
    /\ LET chunk == Head(tasks[t].rx).text
           accumulated == tasks[t].accumulated_response \o chunk
       IN  IF IsErrorChunk(chunk)
           THEN /\ app' = [app EXCEPT
                             !.streaming_message = None,
                             !.messages = Append(@, UiMessage(Ui.streaming_error \o chunk
                                                              \o Ui.falling_back, "Error")),
                             !.is_loading = FALSE]
                /\ tasks' = [tasks EXCEPT
                               ![t].pc = AfterLoop(tasks[t].received_any_data,
                                                   tasks[t].accumulated_response),
                               ![t].rx = Tail(@),
                               ![t].got = Append(@, Head(tasks[t].rx))]
           ELSE /\ app' = [app EXCEPT !.streaming_message = Some(accumulated)]
                /\ tasks' = [tasks EXCEPT
                               ![t].received_any_data = TRUE,
                               ![t].accumulated_response = accumulated,
                               ![t].rx = Tail(@),
                               ![t].got = Append(@, Head(tasks[t].rx))]
    /\ UNCHANGED <<streamVars, storeVars, toolVars, loopVars, card>>

\* rx.recv().await gives task t None: the channel is closed
ChannelClosed(t) ==
    /\ tasks[t].pc = "recv"
    /\ tasks[t].rx = <<>>
    /\ tasks' = [tasks EXCEPT ![t].pc = AfterLoop(tasks[t].received_any_data,
                                                  tasks[t].accumulated_response)]
    /\ UNCHANGED <<streamVars, storeVars, toolVars, loopVars, app, card>>

\* task t pushes the accumulated response as the message of the assistant
Finalize(t) ==
    /\ tasks[t].pc = "finalize"
    /\ app' = [app EXCEPT
                 !.streaming_message = None,
                 !.messages = Append(@, UiMessage(tasks[t].accumulated_response, "Assistant")),
                 !.is_loading = FALSE]
    /\ tasks' = [tasks EXCEPT ![t].pc = "done"]
    /\ UNCHANGED <<streamVars, storeVars, toolVars, loopVars, card>>

\* client.send_message(&input).await returns to task t: the response is the
\* message of the assistant, an error is shown with the error of the stream
FallbackReturns(t) ==
    /\ tasks[t].pc = "fallback"
    /\ \E reply \in Ui.Replies :
         app' = [app EXCEPT
                   !.streaming_message = None,
                   !.messages = Append(@,
                       IF reply.ok THEN UiMessage(reply.text, "Assistant")
                       ELSE IF tasks[t].error = None
                       THEN UiMessage(Ui.fallback_api_error \o reply.error, "Error")
                       ELSE UiMessage(Ui.streaming_failed \o Unwrap(tasks[t].error)
                                      \o Ui.fallback_failed \o reply.error, "Error")),
                   !.is_loading = FALSE]
    /\ tasks' = [tasks EXCEPT ![t].pc = "done"]
    /\ UNCHANGED <<streamVars, storeVars, toolVars, loopVars, card>>

(***************************************************************************)
(* The conversation orchestration loop: one user turn driven to its end    *)
(* over the client (its stream and its history) and the FunctionExecutor.  *)
(* The loop is written from section 4.5 of the specification; the client,  *)
(* the turns it appends and the executor are those of the source.          *)
(***************************************************************************)
\* the loop gives up after MaxIterations tool round-trips
MaxIterations == 2

\* what the loop is run with: the messages of the user, and the parts of the
\* responses the Gemini backend streams: a text; a text and two calls of
\* built-in tools; a call of save_memory with a blank fact; a call of "fetch"
Orchestration ==
    LET Call(name, key, text) ==
            GPart(None, Some(JObj(<< <<Lit.args, JObj(<< <<key, JStr(text)>> >>)>>,
                                     <<Lit.name, JStr(name)>> >>)))
    IN  [Messages |-> [gemini |-> {T.Hi}, mock |-> MockMessages],
         Responses |-> {<<GPart(Some(T.Hi), None)>>,
                        <<GPart(Some(T.Hi), None),
                          Call(Lit.save_memory, Lit.fact, T.Hi),
                          Call(Lit.shell_command, Lit.command, T.ls)>>,
                        <<Call(Lit.save_memory, Lit.fact, T.Blank)>>,
                        <<Call(T.fetch, Lit.query, T.Hi)>>},
         Managers |-> {None, Some({T.fetch})}]

\* the items a call of send_message_stream(message) delivers before its
\* channel closes: those of the mock client's response to the message, or
\* those of the parts of a response of the Gemini backend
LoopStreams(message) ==
    IF backend = "mock"
    THEN {MockItems(SplitIntoChunks(r.response), r.function_call) :
             r \in GetNextResponse(mock, message)}
    ELSE {GeminiPartItems(parts) : parts \in Orchestration.Responses}

\* state AwaitingUserInput: nothing sent, received or executed yet
LoopIdle ==
    loop = [state |-> "AwaitingUserInput", rx |-> <<>>, text |-> <<>>, calls |-> <<>>,
            pending |-> <<>>, iterations |-> 0, requests |-> <<>>, forwarded |-> <<>>,
            results |-> <<>>]

\* step 1: the message of the user is added to the history and
\* send_message_stream is called with it
UserMessage ==
    /\ loop.state = "AwaitingUserInput"
    /\ \E message \in Orchestration.Messages[backend] : \E items \in LoopStreams(message) :
         /\ conversation_history' = Append(conversation_history, UserTurn(backend, message))
         /\ loop' = [loop EXCEPT !.state = "Streaming", !.rx = items,
                                 !.requests = Append(@, message)]
    /\ UNCHANGED <<streamVars, system_instruction, call, result, toolVars, appVars>>

\* step 2: the next item of the channel: its text is forwarded to the caller
\* and accumulated, its tool call is accumulated
DrainItem ==
    /\ loop.state = "Streaming"
    /\ loop.rx # <<>>
    /\ LET item == Head(loop.rx)
       IN  loop' = [loop EXCEPT
                      !.rx = Tail(@),
                      !.text = @ \o item.text,
                      !.forwarded = IF item.text # <<>> THEN Append(@, item.text) ELSE @,
                      !.calls = IF IsSome(item.fc) THEN Append(@, Unwrap(item.fc)) ELSE @]
    /\ UNCHANGED <<streamVars, storeVars, toolVars, appVars>>

\* StreamClosed without the maximum of iterations
StreamClosed_NoLimit ==
    /\ loop.state = "Streaming"
    /\ loop.rx = <<>>
    /\ \E timestamp \in Caller.Timestamps :
         IF loop.calls = <<>>
         THEN /\ conversation_history' =
                    Append(conversation_history, ModelTurn(backend, loop.text, None, timestamp))
              /\ loop' = [loop EXCEPT !.state = "Idle"]
         ELSE \E i \in 1..Len(loop.calls) :
                /\ conversation_history' =
                      Append(conversation_history,
                             ModelTurn(backend, loop.text, Some(loop.calls[i]), timestamp))
                /\ loop' = [loop EXCEPT !.state = "ExecutingTools", !.pending = loop.calls]
    /\ UNCHANGED <<streamVars, system_instruction, call, result, toolVars, appVars>>

\* steps 3 and 4: the channel is closed.  Without tool calls the Model turn
\* is appended and the turn is complete.  With tool calls the loop reports
\* ToolLoopExceeded when MaxIterations round-trips are done, and appends
\* nothing; otherwise it appends the Model turn through add_model_response,
\* which takes the text and one function call, and goes on to the tools
StreamClosed ==
    /\ loop.state = "Streaming"
    /\ loop.rx = <<>>
    /\ \E timestamp \in Caller.Timestamps :
         IF loop.calls = <<>>
         THEN /\ conversation_history' =
                    Append(conversation_history, ModelTurn(backend, loop.text, None, timestamp))
              /\ loop' = [loop EXCEPT !.state = "Idle"]
         ELSE IF loop.iterations = MaxIterations
         THEN /\ loop' = [loop EXCEPT !.state = "ToolLoopExceeded"]
              /\ UNCHANGED conversation_history
         ELSE \E i \in 1..Len(loop.calls) :
                /\ conversation_history' =
                      Append(conversation_history,
                             ModelTurn(backend, loop.text, Some(loop.calls[i]), timestamp))
                /\ loop' = [loop EXCEPT !.state = "ExecutingTools", !.pending = loop.calls]
    /\ UNCHANGED <<streamVars, system_instruction, call, result, toolVars, appVars>>

\* step 5, for each call: the FunctionCall is read from the JSON of the call
\* (struct FunctionCall: name, args) and given to execute_function
ExecuteNext ==
    /\ loop.state = "ExecutingTools"
    /\ loop.pending # <<>>
    /\ function_result = None
    /\ LET value == Head(loop.pending)
       IN  ExecuteFunction([name |-> Unwrap(ValueGet(value, Lit.name)).s,
                            args |-> Unwrap(ValueGet(value, Lit.args))])

\* step 5, for each call: execute_function has returned.  Its
\* FunctionResponse, or for an Err a FunctionResponse whose payload describes
\* the failure, is appended as the Function turn
AppendFunctionTurn ==
    /\ loop.state = "ExecutingTools"
    /\ tool_pc = "idle"
    /\ function_result # None
    /\ \E timestamp \in Caller.Timestamps :
         LET r == Unwrap(function_result)
             response ==
                 IF r.ok THEN r.value
                 ELSE FunctionResponse(Unwrap(executing).name, timestamp,
                                       JObj(<< <<Lit.error, JStr(r.error)>>,
                                               <<Lit.success, Dispatch.False>> >>))
         IN  /\ conversation_history' =
                   Append(conversation_history, FunctionTurn(backend, response))
             /\ loop' = [loop EXCEPT !.pending = Tail(@), !.results = Append(@, response)]
    /\ function_result' = None
    /\ executing' = None
    /\ UNCHANGED <<streamVars, system_instruction, call, result, mcp_manager, tool_pc,
                   invoked, appVars>>

\* step 5, at its end: every call is executed and its Function turn
\* appended; send_message_stream("") is called for the reaction of the model
Resume ==
    /\ loop.state = "ExecutingTools"
    /\ loop.pending = <<>>
    /\ function_result = None
    /\ \E items \in LoopStreams(<<>>) :
         loop' = [loop EXCEPT !.state = "Streaming", !.rx = items, !.text = <<>>,
                              !.calls = <<>>, !.iterations = @ + 1,
                              !.requests = Append(@, <<>>)]
    /\ UNCHANGED <<streamVars, storeVars, toolVars, appVars>>

(***************************************************************************)
(* Response bodies the servers of the model send.                          *)
(***************************************************************************)
\* one SSE event with a single data line
Event(json, delimiter) == Lit.data \o json \o delimiter

\* the bodies a Gemini server of the model sends
GB ==
    [Hi |-> Event(G.Hi.json, Lit.lflf),
     EAcute |-> Event(G.EAcute.json, Lit.crlfcrlf),
     Mixed |-> Event(G.Hi.json, Lit.crlfcrlf) \o Event(G.Call.json, Lit.lflf),
     \* a payload cut short, then a good event
     BadThenGood |-> Event(<<123, 34, 99, 97, 110, 100, 105, 100, 97, 116, 101, 115, 34, 58, 91, 123, 34, 99, 111, 110, 116, 101, 110, 116, 34, 58>> (* {"candidates":[{"content": *), Lit.lflf) \o Event(G.Hi.json, Lit.lflf),
     Multi |-> Event(G.Multi.json, Lit.lflf),
     \* an event of several lines: event:, a comment, two data lines, [DONE],
     \* blank data; then an event without candidates
     Lines |-> <<101, 118, 101, 110, 116, 58, 32, 109, 101, 115, 115, 97, 103, 101, 10, 58, 32, 107, 101, 101, 112, 45, 97, 108, 105, 118, 101, 10>> (* event: message\n: keep-alive\n *) \o Lit.data \o G.EmptyText.json
               \o <<13, 10, 100, 97, 116, 97, 58, 32, 91, 68, 79, 78, 69, 93, 10, 100, 97, 116, 97, 58, 32, 32, 10>> (* \r\ndata: [DONE]\ndata:  \n *) \o Event(G.TwoCandidates.json, Lit.lflf)
               \o Event(G.NoCandidates.json, Lit.lflf),
     \* a last event without its blank line
     Partial |-> Event(G.Hi.json, Lit.lflf) \o Lit.data \o G.Call.json \o <<10>>,
     \* an event of three data lines, the second one the sentinel; an event
     \* of the sentinel alone; an event of a blank data line; a last event
     \* a comment line with a two-byte character, then a data line
     CommentEAcute |-> <<58, 195, 169, 10>> (* :é\n *) \o Event(G.Hi.json, Lit.lflf),
     Sentinel |-> Lit.data \o G.Hi.json \o <<10, 100, 97, 116, 97, 58, 32, 91, 68, 79, 78, 69, 93, 10>> (* \ndata: [DONE]\n *) \o Event(G.Call.json, Lit.lflf)
                  \o <<100, 97, 116, 97, 58, 32, 91, 68, 79, 78, 69, 93, 10, 10, 100, 97, 116, 97, 58, 32, 32, 32, 10, 10>> (* data: [DONE]\n\ndata:   \n\n *) \o Event(G.TwoCandidates.json, Lit.lflf),
     Empty |-> <<>>]

GeminiBodies == {GB[k] : k \in DOMAIN GB}

OEvent(d, finish_reason) == Event(OChunk(d, finish_reason).json, Lit.lflf)

\* the ways to cut a text into at most MaxFragments non-empty pieces, each
\* way the set of its cut offsets
Slicings(text) == {c \in SUBSET (1..(Len(text) - 1)) : Cardinality(c) < MaxFragments}

\* the pieces of text from offset `from` on, cut at the offsets of cuts
RECURSIVE SliceFrom(_, _, _)
SliceFrom(text, from, cuts) ==
    LET later == {c \in cuts : c > from}
    IN  IF later = {} THEN <<SubSeq(text, from + 1, Len(text))>>
        ELSE <<SubSeq(text, from + 1, Min(later))>> \o SliceFrom(text, Min(later), later)

\* the first fragment of a tool call: index, id "call_1", type, name, arguments
D_First(index, name, arguments) ==
    D_ToolCall(Some(index), Some(Lit.call_ \o <<49>>), Some(Lit.function),
               Some(name), Some(arguments))

\* a tool call to f at index 0 whose arguments arrive in the given pieces
\* (the later ones in deltas of index and arguments only), then the finish
\* event
RECURSIVE OB_Fragments(_, _)
OB_Fragments(pieces, k) ==
    IF k > Len(pieces) THEN OEvent(D.Empty, Some(Lit.tool_calls))
    ELSE OEvent(IF k = 1 THEN D_First(0, T.f, pieces[k])
                ELSE D_ToolCall(Some(0), None, None, None, Some(pieces[k])), None)
         \o OB_Fragments(pieces, k + 1)

\* the bodies an OpenAI server of the model sends
OB ==
    [Hi |-> OEvent(D.Hi, None),
     Text |-> OEvent(D.Role, None) \o OEvent(D.Hi, None) \o OEvent(D.EmptyContent, None)
              \o OEvent(D.Empty, Some(T.stop)) \o <<100, 97, 116, 97, 58, 32, 91, 68, 79, 78, 69, 93, 10, 10>> (* data: [DONE]\n\n *),
     TwoCalls |-> OEvent(D_First(0, T.f, T.EmptyObject), None)
                  \o OEvent(D_First(1, T.g, T.Args), None)
                  \o OEvent(D.Empty, Some(Lit.tool_calls)),
     SecondSlotOnly |-> OEvent(D_First(1, T.g, T.Args), None)
                        \o OEvent(D.Hi, Some(Lit.tool_calls)),
     TruncatedArgs |-> OEvent(D_First(0, T.f, T.ArgsTruncated), None)
                       \o OEvent(D.Empty, Some(Lit.tool_calls)) \o OEvent(D.Hi, None),
     \* a name with an empty id and no arguments
     NoArgs |-> OEvent(D_ToolCall(Some(0), Some(<<>>), None, Some(T.f), None), None)
                \o OEvent(D.Empty, Some(Lit.tool_calls)),
     \* a fragment without index and id
     NoIndex |-> OEvent(D_ToolCall(None, None, None, Some(T.f), Some(T.Args)),
                        Some(Lit.tool_calls)),
     \* a payload cut short, then a good event
     BadThenGood |-> Event(<<123, 34, 105, 100, 34, 58, 34, 34, 44, 34, 111, 98, 106, 101, 99, 116, 34, 58>> (* {"id":"","object": *), Lit.lflf) \o OEvent(D.Hi, None),
     NoChoices |-> Event(O_NoChoices.json, Lit.lflf),
     \* an event of two data lines, the second one the sentinel; an event of
     \* the sentinel alone; an event of a blank data line; a last event
     Sentinel |-> Lit.data \o OChunk(D.Hi, None).json \o <<10, 100, 97, 116, 97, 58, 32, 91, 68, 79, 78, 69, 93, 10, 10>> (* \ndata: [DONE]\n\n *)
                  \o <<100, 97, 116, 97, 58, 32, 91, 68, 79, 78, 69, 93, 10, 10, 100, 97, 116, 97, 58, 32, 32, 32, 10, 10>> (* data: [DONE]\n\ndata:   \n\n *) \o OEvent(D.Hi, None),
     \* a last event without its blank line
     Partial |-> OEvent(D.Hi, None) \o Lit.data \o OChunk(D.Hi, Some(T.stop)).json \o <<10>>]

OpenAIBodies ==
    {OB[k] : k \in DOMAIN OB}
    \cup {OB_Fragments(SliceFrom(T.Args, 0, c), 1) : c \in Slicings(T.Args)}

\* the offsets at which the transport may end a chunk of body b
CutPoints(b) ==
    IF Len(b) <= FineLen THEN 1..Len(b)
    ELSE {p \in 1..Len(b) : p % CutStride = 0 \/ p = Len(b)}

(***************************************************************************)
(* Initial state: one client constructed (a variant of AnyChatClient), no  *)
(* request issued.                                                         *)
(***************************************************************************)
StreamIdle ==
    /\ pc = "idle"
    /\ body = <<>>
    /\ pos = 0
    /\ buffer = <<>>
    /\ chunk_count = 0
    /\ current_tool_calls = <<>>
    /\ outbox = <<>>
    /\ chan = <<>>
    /\ rxAlive = FALSE
    /\ received = <<>>
    /\ closedSeen = FALSE
    /\ sent = <<>>
    /\ streamError = FALSE
    /\ fragments = <<>>

Init ==
    /\ StreamIdle
    /\ conversation_history = <<>>
    /\ system_instruction = None
    /\ call = None
    /\ result = None
    /\ ExecutorWith(None)
    /\ AppNew
    /\ LoopIdle
    /\ \/ backend \in {"gemini", "openai"} /\ mock = MockWithResponses(<<>>)
       \/ backend = "mock" /\ mock \in MockClients

(***************************************************************************)
(* send_message_stream: the request, the status check, the channel and the *)
(* spawned task.                                                           *)
(***************************************************************************)
\* StartStream with the channel created before the status is looked at
StartStream_ChannelFirst(name, status, b) ==
    /\ pc = "idle"
    /\ backend = name
    /\ call # None
    /\ Unwrap(call).kind = "send_message_stream"
    /\ call' = None
    /\ rxAlive' = TRUE
    /\ IF IsSuccess(status)
       THEN /\ pc' = "recv"
            /\ body' = b
            /\ result' = Some([ok |-> TRUE])
       ELSE /\ pc' = "failed"
            /\ result' = Some(ApiRequestFailed)
            /\ UNCHANGED body
    /\ UNCHANGED <<backend, pos, buffer, chunk_count, current_tool_calls, outbox, chan, received,
                   closedSeen, sent, streamError, fragments, mock, conversation_history,
                   system_instruction, toolVars, appVars, loopVars>>

\* the HTTP exchange of a real client: on a non-2xx status the call returns
\* Err and no channel exists; otherwise the channel is created and the task
\* spawned with the response whose body is b
StartStream(name, status, b) ==
    /\ pc = "idle"
    /\ backend = name
    /\ call # None
    /\ Unwrap(call).kind = "send_message_stream"
    /\ call' = None
    /\ IF IsSuccess(status)
       THEN /\ pc' = "recv"
            /\ body' = b
            /\ rxAlive' = TRUE
            /\ result' = Some([ok |-> TRUE])
       ELSE /\ pc' = "failed"
            /\ result' = Some(ApiRequestFailed)
            /\ UNCHANGED <<body, rxAlive>>
    /\ UNCHANGED <<backend, pos, buffer, chunk_count, current_tool_calls, outbox, chan, received,
                   closedSeen, sent, streamError, fragments, mock, conversation_history,
                   system_instruction, toolVars, appVars, loopVars>>

GeminiSendMessageStream ==
    \E status \in Caller.Statuses, b \in GeminiBodies : StartStream("gemini", status, b)

OpenAISendMessageStream ==
    \E status \in Caller.Statuses, b \in OpenAIBodies : StartStream("openai", status, b)

\* ChatClient::send_message_stream of MockLLMClient: it works on a clone of
\* the client, so the client's own fields stay as they are
MockSendMessageStream ==
    \E message \in MockMessages :
      \E r \in GetNextResponse(mock, message) :
        /\ pc = "idle"
        /\ call = None
        /\ backend = "mock"
        /\ pc' = "send"
        /\ rxAlive' = TRUE
        /\ result' = Some([ok |-> TRUE])
        /\ outbox' = MockItems(SplitIntoChunks(r.response), r.function_call)
        /\ UNCHANGED <<backend, body, pos, buffer, chunk_count, current_tool_calls, chan, received,
                       closedSeen, sent, streamError, fragments, mock,
                       conversation_history, system_instruction, call, toolVars, appVars, loopVars>>

(***************************************************************************)
(* The decode task.                                                        *)
(***************************************************************************)
\* stream.next() yields Ok(chunk): the next bytes of the body up to `end`, one
\* of the offsets the transport may cut at
ChunkArrives(end) ==
    /\ end > pos
    /\ chunk_count + 1 < MaxChunks \/ end = Len(body)
    /\ pos' = end
    /\ chunk_count' = chunk_count + 1

GeminiChunk ==
    /\ backend = "gemini"
    /\ pc = "recv"
    /\ \E end \in CutPoints(body) :
      /\ ChunkArrives(end)
      /\ \E r \in {GeminiOnChunk(buffer, SubSeq(body, pos + 1, end))} :
          /\ buffer' = r.buffer
          /\ outbox' = r.out
          /\ pc' = IF r.out = <<>> THEN "recv" ELSE "send"
          /\ UNCHANGED <<backend, body, current_tool_calls, chan, rxAlive, received,
                         closedSeen, sent, streamError, fragments, mock, storeVars, toolVars, appVars, loopVars>>

OpenAIChunk ==
    /\ backend = "openai"
    /\ pc = "recv"
    /\ \E end \in CutPoints(body) :
      /\ ChunkArrives(end)
      /\ \E r \in {OpenAIOnChunk(buffer, current_tool_calls, SubSeq(body, pos + 1, end))} :
          /\ buffer' = r.buffer
          /\ current_tool_calls' = r.st.tcs
          /\ fragments' = fragments \o r.st.frags
          /\ outbox' = r.st.out
          /\ pc' = IF r.st.out = <<>> THEN "recv" ELSE "send"
          /\ UNCHANGED <<backend, body, chan, rxAlive, received, closedSeen, sent,
                         streamError, mock, storeVars, toolVars, appVars, loopVars>>

\* SendNext with try_send in place of send(..).await: an item that finds the
\* channel full is discarded and the task goes on
SendNext_DropsWhenFull(capacity, after) ==
    /\ pc = "send"
    /\ IF rxAlive
       THEN /\ IF Len(chan) < capacity
               THEN /\ chan' = Append(chan, Head(outbox))
                    /\ sent' = Append(sent, Head(outbox))
               ELSE UNCHANGED <<chan, sent>>
            /\ outbox' = Tail(outbox)
            /\ pc' = IF Tail(outbox) = <<>> THEN after ELSE "send"
       ELSE /\ pc' = "done"
            /\ outbox' = <<>>
            /\ UNCHANGED <<chan, sent>>
    /\ UNCHANGED <<backend, body, pos, buffer, chunk_count, current_tool_calls, rxAlive,
                   received, closedSeen, streamError, fragments, mock, storeVars, toolVars, appVars, loopVars>>

\* tx.send(item).await of the next computed item: it is queued while the
\* receiver lives and the channel has room; once the receiver is dropped the
\* send fails and the task returns.  `after` is where the task goes when it
\* has sent its last computed item.
SendNext(capacity, after) ==
    /\ pc = "send"
    /\ IF rxAlive
       THEN /\ Len(chan) < capacity
            /\ chan' = Append(chan, Head(outbox))
            /\ sent' = Append(sent, Head(outbox))
            /\ outbox' = Tail(outbox)
            /\ pc' = IF Tail(outbox) = <<>> THEN after ELSE "send"
       ELSE /\ pc' = "done"
            /\ outbox' = <<>>
            /\ UNCHANGED <<chan, sent>>
    /\ UNCHANGED <<backend, body, pos, buffer, chunk_count, current_tool_calls, rxAlive,
                   received, closedSeen, streamError, fragments, mock, storeVars, toolVars, appVars, loopVars>>

GeminiSend == backend = "gemini" /\ SendNext(ChannelCapacity, "recv")
OpenAISend == backend = "openai" /\ SendNext(ChannelCapacity, "recv")
\* the mock task ends after its last chunk
MockSend == backend = "mock" /\ SendNext(MockChannelCapacity, "done")

\* StreamEnds with the sender kept alive after the loop: the task is over but
\* the channel never closes
StreamEnds_KeepsSender ==
    /\ pc = "recv"
    /\ pos = Len(body)
    /\ pc' = "parked"
    /\ UNCHANGED <<backend, body, pos, buffer, chunk_count, current_tool_calls, outbox,
                   chan, rxAlive, received, closedSeen, sent, streamError,
                   fragments, mock, storeVars, toolVars, appVars, loopVars>>

\* StreamEnds with the text left in the buffer handled as a last event
StreamEnds_FlushesBuffer ==
    /\ pc = "recv"
    /\ pos = Len(body)
    /\ LET out == IF backend = "gemini" THEN GeminiHandleLines(Lines(buffer), <<>>)
                  ELSE OpenAIHandleLines(Lines(buffer),
                                         [tcs |-> current_tool_calls, out |-> <<>>,
                                          frags |-> <<>>]).out
       IN  /\ outbox' = out
           /\ pc' = IF out = <<>> THEN "done" ELSE "send"
    /\ buffer' = <<>>
    /\ UNCHANGED <<backend, body, pos, chunk_count, current_tool_calls,
                   chan, rxAlive, received, closedSeen, sent, streamError,
                   fragments, mock, storeVars, toolVars, appVars, loopVars>>

\* stream.next() yields None: the loop ends and tx is dropped
StreamEnds ==
    /\ pc = "recv"
    /\ pos = Len(body)
    /\ pc' = "done"
    /\ UNCHANGED <<backend, body, pos, buffer, chunk_count, current_tool_calls, outbox,
                   chan, rxAlive, received, closedSeen, sent, streamError,
                   fragments, mock, storeVars, toolVars, appVars, loopVars>>

\* format!("Stream error: {}", e), sent with None
StreamErrorItem == Item(Lit.stream_error \o T.TransportError, None, "stream_error")

\* StreamFails without the send of the error text
StreamFails_Silent ==
    /\ pc = "recv"
    /\ streamError' = TRUE
    /\ pc' = "done"
    /\ UNCHANGED <<backend, body, pos, buffer, chunk_count, current_tool_calls, outbox,
                   chan, rxAlive, received, closedSeen, sent, fragments, mock, storeVars, toolVars, appVars, loopVars>>

\* stream.next() yields Err(e): the error text is sent (the result of the
\* send is ignored), the loop breaks and tx is dropped
StreamFails ==
    /\ pc = "recv"
    /\ streamError' = TRUE
    /\ pc' = "done"
    /\ IF rxAlive
       THEN /\ Len(chan) < ChannelCapacity
            /\ chan' = Append(chan, StreamErrorItem)
            /\ sent' = Append(sent, StreamErrorItem)
       ELSE UNCHANGED <<chan, sent>>
    /\ UNCHANGED <<backend, body, pos, buffer, chunk_count, current_tool_calls, outbox,
                   rxAlive, received, closedSeen, fragments, mock, storeVars, toolVars, appVars, loopVars>>

GeminiStreamEnds == backend = "gemini" /\ StreamEnds
OpenAIStreamEnds == backend = "openai" /\ StreamEnds
GeminiStreamFails == backend = "gemini" /\ StreamFails
OpenAIStreamFails == backend = "openai" /\ StreamFails

(***************************************************************************)
(* The consumer of the channel.                                            *)
(***************************************************************************)
\* rx.recv().await returns Some(item)
Recv ==
    /\ rxAlive
    /\ chan # <<>>
    /\ received' = Append(received, Head(chan))
    /\ chan' = Tail(chan)
    /\ UNCHANGED <<pc, backend, body, pos, buffer, chunk_count, current_tool_calls,
                   outbox, rxAlive, closedSeen, sent, streamError, fragments,
                   mock, storeVars, toolVars, appVars, loopVars>>

\* rx.recv().await returns None: the channel is empty and tx is dropped
RecvNone ==
    /\ rxAlive
    /\ ~closedSeen
    /\ chan = <<>>
    /\ pc = "done"
    /\ closedSeen' = TRUE
    /\ UNCHANGED <<pc, backend, body, pos, buffer, chunk_count, current_tool_calls,
                   outbox, chan, rxAlive, received, sent, streamError,
                   fragments, mock, storeVars, toolVars, appVars, loopVars>>

\* the consumer drops the Receiver before the channel has closed
DropReceiver ==
    /\ rxAlive
    /\ ~closedSeen
    /\ rxAlive' = FALSE
    /\ chan' = <<>>
    /\ UNCHANGED <<pc, backend, body, pos, buffer, chunk_count, current_tool_calls,
                   outbox, received, closedSeen, sent, streamError, fragments,
                   mock, storeVars, toolVars, appVars, loopVars>>

Next ==
    \/ SendMessageStreamRequest
    \/ GeminiSendMessageStream
    \/ OpenAISendMessageStream
    \/ MockSendMessageStream
    \/ GeminiChunk
    \/ OpenAIChunk
    \/ GeminiSend
    \/ OpenAISend
    \/ MockSend
    \/ GeminiStreamEnds
    \/ OpenAIStreamEnds
    \/ GeminiStreamFails
    \/ OpenAIStreamFails
    \/ Recv
    \/ RecvNone
    \/ DropReceiver

Spec == Init /\ [][Next]_vars

\* a response of LongWords words "a": with the words the mock puts before it,
\* more chunks of three words than the mock channel holds
LongWords == 302
LongResponse == [i \in 1..(2 * LongWords - 1) |-> IF i % 2 = 1 THEN 97 ELSE 32]

\* the clients of Init, and a mock client constructed with the long response
ChannelInit ==
    \/ Init
    \/ /\ StreamIdle
       /\ conversation_history = <<>>
       /\ system_instruction = None
       /\ call = None
       /\ result = None
       /\ ExecutorWith(None)
       /\ AppNew
       /\ LoopIdle
       /\ backend = "mock"
       /\ mock = MockWithResponses(<<LongResponse>>)

\* the streams of Spec and those of the long response, whose producer finds
\* the channel full when the consumer is slow
ChannelSpec == ChannelInit /\ [][Next]_vars

(***************************************************************************)
(* The conversation store under its caller: the calls of the ChatClient    *)
(* interface in any order, the streams left undrained.                     *)
(***************************************************************************)
StoreNext ==
    \/ LoadSystemPrompt
    \/ AddUserMessage
    \/ AddFunctionResponse
    \/ AddModelResponse
    \/ ClearConversation
    \/ SendMessageRequest
    \/ SendMessageReturn
    \/ MockSendMessage
    \/ SendMessageStreamRequest
    \/ GeminiSendMessageStream
    \/ OpenAISendMessageStream
    \/ MockSendMessageStream

\* the clients of Init, the mock one being the one with triggers
StoreInit == Init /\ (backend = "mock" => mock.function_calls # {})

StoreSpec == StoreInit /\ [][StoreNext]_vars

\* the ChatClient calls in any order on every client of Init: the mock client
\* with several responses, with none and with triggers
MockSpec == Init /\ [][StoreNext]_vars

(***************************************************************************)
(* The FunctionExecutor under its caller: one call of execute_function     *)
(* after the other, with and without an MCP manager.                       *)
(***************************************************************************)
ToolNext ==
    \/ CallFunction
    \/ ToolExecuteReturn
    \/ McpCallToolReturn
    \/ ShellCommandReturn

ToolInit ==
    /\ StreamIdle
    /\ conversation_history = <<>>
    /\ system_instruction = None
    /\ call = None
    /\ result = None
    /\ backend = "gemini"
    /\ mock = MockWithResponses(<<>>)
    /\ \E manager \in Dispatch.Managers : ExecutorWith(manager)
    /\ AppNew
    /\ LoopIdle

ToolSpec == ToolInit /\ [][ToolNext]_vars

(***************************************************************************)
(* The terminal UI: the keys of the user and the steps of the tasks, in    *)
(* any order.                                                              *)
(***************************************************************************)
AppNext ==
    \/ NormalKey
    \/ EditingKey
    \/ EnterKey
    \/ \E t \in 1..Len(tasks) : StreamReturns(t)
    \/ \E t \in 1..Len(tasks) : ReceiveChunk(t)
    \/ \E t \in 1..Len(tasks) : ChannelClosed(t)
    \/ \E t \in 1..Len(tasks) : Finalize(t)
    \/ \E t \in 1..Len(tasks) : FallbackReturns(t)

AppInit == Init /\ backend = "gemini"

AppSpec == AppInit /\ [][AppNext]_vars

(***************************************************************************)
(* A ResponseCard under its caller: with_width and display_complete.       *)
(***************************************************************************)
CardSpec == AppInit /\ [][WithWidth \/ DisplayComplete]_vars

(***************************************************************************)
(* The orchestration loop over the mock client or the Gemini client, and   *)
(* over an executor without or with an MCP manager offering "fetch".       *)
(***************************************************************************)
LoopNext ==
    \/ UserMessage
    \/ DrainItem
    \/ StreamClosed
    \/ ExecuteNext
    \/ ToolExecuteReturn
    \/ McpCallToolReturn
    \/ ShellCommandReturn
    \/ AppendFunctionTurn
    \/ Resume

LoopInit ==
    /\ StreamIdle
    /\ conversation_history = <<>>
    /\ system_instruction = None
    /\ call = None
    /\ result = None
    /\ \/ backend = "gemini" /\ mock = MockWithResponses(<<>>)
       \/ backend = "mock" /\ mock \in MockClients
    /\ \E manager \in Orchestration.Managers : ExecutorWith(manager)
    /\ AppNew
    /\ LoopIdle

LoopSpec == LoopInit /\ [][LoopNext]_vars

\* the fairness the runtime gives: a runnable task is scheduled, the transport
\* yields the next chunk, the end or an error, and a consumer that awaits
\* recv() gets what the channel holds
TaskStep ==
    \/ GeminiSend
    \/ OpenAISend
    \/ MockSend
    \/ GeminiStreamEnds
    \/ OpenAIStreamEnds
    \/ GeminiStreamFails
    \/ OpenAIStreamFails
    \/ GeminiChunk
    \/ OpenAIChunk

LiveSpec == Spec /\ WF_vars(TaskStep) /\ WF_vars(Recv) /\ WF_vars(RecvNone)

(***************************************************************************)
(* Properties of the streams.                                              *)
(***************************************************************************)
Last(s) == s[Len(s)]

\* the indices of the items of s that come from src
ItemsFrom(s, src) == {k \in 1..Len(s) : s[k].src = src}

\* the task is over, every chunk of the body was handled, the transport did
\* not fail and the consumer kept its receiver
DeliveredWhole ==
    /\ backend \in {"gemini", "openai"}
    /\ pc = "done"
    /\ rxAlive
    /\ ~streamError

\* what the decode task of the backend makes of body b arriving as one chunk
SingleChunk(b) ==
    IF backend = "gemini"
    THEN LET r == GeminiOnChunk(<<>>, b) IN [buffer |-> r.buffer, out |-> r.out]
    ELSE LET r == OpenAIOnChunk(<<>>, <<>>, b) IN [buffer |-> r.buffer, out |-> r.st.out]

\* a body of complete events, valid UTF-8, every payload of the backend's schema
WellFormed(b) ==
    /\ IsUtf8(b)
    /\ SingleChunk(b).buffer = <<>>
    /\ ItemsFrom(SingleChunk(b).out, "parse_error") = {}

\* C1: chunking-invariance.  Whatever the chunks a well-formed body arrived
\* in, the items the decode task has sent when the body is over are the items
\* it sends when the body arrives as a single chunk.
C1_ChunkingInvariance ==
    (DeliveredWhole /\ WellFormed(body))
        => VisibleSeq(sent) = VisibleSeq(SingleChunk(body).out)

\* the bodies made of one data event that carries one text, with the payload
C2_OneEventBodies ==
    {[body |-> GB.Hi, json |-> G.Hi.json],
     [body |-> GB.EAcute, json |-> G.EAcute.json],
     [body |-> OB.Hi, json |-> OChunk(D.Hi, None).json]}

\* offset p of body b lies inside the JSON payload of its one event
InsidePayload(b, p) ==
    \E c \in C2_OneEventBodies :
        /\ c.body = b
        /\ p > Len(Lit.data)
        /\ p < Len(Lit.data) + Len(c.json)

\* C2: one data event delivered in two chunks, split inside its JSON payload.
\* The first chunk produces no item and stays in the buffer; the second chunk,
\* which brings the delimiter, produces exactly one item.
C2_SplitEvent ==
    [][/\ (chunk_count = 0 /\ chunk_count' = 1 /\ InsidePayload(body', pos'))
            => (outbox' = <<>> /\ buffer' = Upto(body', pos'))
       /\ (chunk_count = 1 /\ chunk_count' = 2 /\ InsidePayload(body, pos)
             /\ pos' = Len(body))
            => Len(outbox') = 1]_vars

\* C3: a payload that does not parse is a terminal error.  A parse-error item
\* carries the parse failure and the payload text, and no item is sent on the
\* stream after it.
C3_ParseErrorIsTerminal ==
    \A k \in ItemsFrom(sent, "parse_error") :
        /\ StartsWith(sent[k].text, Lit.json_parse_error)
        /\ Contains(sent[k].text, Lit.data_sep)
        /\ sent[k].fc = None
        /\ k = Len(sent)

\* C4: a transport error.  The task is over (the sender dropped), at most one
\* stream-error item was ever sent and nothing after it, and a consumer that
\* still holds the receiver was sent exactly that one item, last, carrying the
\* error text and no tool call.
C4_TransportError ==
    /\ Cardinality(ItemsFrom(sent, "stream_error")) <= 1
    /\ \A k \in ItemsFrom(sent, "stream_error") : k = Len(sent) /\ streamError
    /\ streamError =>
        /\ pc = "done"
        /\ outbox = <<>>
        /\ rxAlive =>
            /\ sent # <<>>
            /\ Last(sent).src = "stream_error"
            /\ Visible(Last(sent)) = <<Lit.stream_error \o T.TransportError, None>>

\* a transport error after two items, seen by the consumer up to the closure
C4_Witness ==
    /\ streamError
    /\ rxAlive
    /\ closedSeen
    /\ Len(sent) >= 3
    /\ received = sent

\* the fragments addressed to index, concatenated in arrival order
RECURSIVE ConcatFragments(_, _)
ConcatFragments(frags, index) ==
    IF frags = <<>> THEN <<>>
    ELSE (IF Head(frags)[1] = index THEN Head(frags)[2] ELSE <<>>)
         \o ConcatFragments(Tail(frags), index)

\* the slot the finish event emits: the first one with a non-empty name
NamedSlots == {i \in 1..Len(current_tool_calls) : current_tool_calls[i].function.name # <<>>}

\* the items sent so far that carry a tool call
CallItems == SelectSeq(sent, LAMBDA it : IsSome(it.fc))

\* {"a":1} as a serde_json::Value
ArgsValue == JObj(<< <<T.a, JNum(1)>> >>)

\* C5: OpenAI argument reconstruction.  The arguments buffer of every slot is
\* the concatenation, in arrival order, of the fragments addressed to its
\* index, and when that concatenation is JSON the emitted call's args are its
\* parse: for every slicing of {"a":1} the call carries the object {"a":1}.
C5_ArgumentsReconstruction ==
    backend = "openai" =>
        /\ \A i \in 1..Len(current_tool_calls) :
              current_tool_calls[i].function.arguments = ConcatFragments(fragments, i - 1)
        /\ \A k \in 1..Len(CallItems) :
              /\ NamedSlots # {}
              /\ LET text == ConcatFragments(fragments, Min(NamedSlots) - 1)
                 IN  /\ ParseValue(text).ok
                        => Unwrap(CallItems[k].fc).m[1] = <<Lit.args, ParseValue(text).value>>
                     /\ text = T.Args
                        => Unwrap(CallItems[k].fc).m[1] = <<Lit.args, ArgsValue>>

\* the arguments arrived in three fragments and the call was sent
C5_Witness ==
    /\ backend = "openai"
    /\ Len(fragments) = 3
    /\ ConcatFragments(fragments, 0) = T.Args
    /\ Len(CallItems) = 1
    /\ Unwrap(CallItems[1].fc) = JObj(<< <<Lit.args, ArgsValue>>, <<Lit.name, JStr(T.f)>> >>)

\* the bodies whose last tool-call event has finish_reason "tool_calls"
C6_ToolCallBodies ==
    {OB.TwoCalls, OB.SecondSlotOnly, OB.TruncatedArgs, OB.NoArgs, OB.NoIndex}
    \cup {OB_Fragments(SliceFrom(T.Args, 0, c), 1) : c \in Slicings(T.Args)}

\* the slots with a non-empty name, in index order
RECURSIVE NamedInOrder(_)
NamedInOrder(S) ==
    IF S = {} THEN <<>> ELSE <<Min(S)>> \o NamedInOrder(S \ {Min(S)})

\* C6: finish_reason "tool_calls" with m named slots.  The stream carries m
\* tool calls, one per named slot, in index order.
C6_AllToolCalls ==
    (DeliveredWhole /\ backend = "openai" /\ body \in C6_ToolCallBodies) =>
        LET slots == NamedInOrder(NamedSlots)
        IN  /\ Len(CallItems) = Len(slots)
            /\ \A k \in 1..Len(slots) :
                  Unwrap(CallItems[k].fc).m[2]
                      = <<Lit.name, JStr(current_tool_calls[slots[k]].function.name)>>

\* C7: an empty or unparsable arguments buffer.  The call is emitted with
\* args {} and the slot's name; no error item is sent for it, and the events
\* after it are decoded as usual (the text "Hi" that follows the call of
\* OB.TruncatedArgs is sent).
C7_ArgsFallback ==
    backend = "openai" =>
        /\ \A k \in 1..Len(CallItems) :
              /\ NamedSlots # {}
              /\ LET slot == current_tool_calls[Min(NamedSlots)]
                     text == ConcatFragments(fragments, Min(NamedSlots) - 1)
                 IN  (text = <<>> \/ ~ParseValue(text).ok)
                        => Unwrap(CallItems[k].fc)
                             = JObj(<< <<Lit.args, JObj(<<>>)>>,
                                       <<Lit.name, JStr(slot.function.name)>> >>)
        /\ body \in {OB.TruncatedArgs, OB.NoArgs} => ItemsFrom(sent, "parse_error") = {}
        /\ (DeliveredWhole /\ body = OB.TruncatedArgs)
              => VisibleSeq(sent)
                   = << <<(<<>>), Some(JObj(<< <<Lit.args, JObj(<<>>)>>, <<Lit.name, JStr(T.f)>> >>))>>,
                        <<T.Hi, None>> >>
        /\ (DeliveredWhole /\ body = OB.NoArgs)
              => VisibleSeq(sent)
                   = << <<(<<>>), Some(JObj(<< <<Lit.args, JObj(<<>>)>>, <<Lit.name, JStr(T.f)>> >>))>> >>

\* the call with truncated arguments went out with {} and the text after it too
C7_Witness ==
    /\ DeliveredWhole
    /\ body = OB.TruncatedArgs
    /\ ConcatFragments(fragments, 0) = T.ArgsTruncated
    /\ Len(sent) = 2
    /\ IsSome(sent[1].fc)

\* what C8 says the parts become: in part order, one item per part that has
\* a non-empty text or a function call, carrying that part's text and that
\* part's call (a part with both gives one item that is both the text item
\* and the tool-call item of the part)
RECURSIVE PartsAsClaimed(_)
PartsAsClaimed(parts) ==
    IF parts = <<>> THEN <<>>
    ELSE LET p == Head(parts)
             text == IF IsSome(p.text) THEN Unwrap(p.text) ELSE <<>>
         IN  (IF text # <<>> \/ IsSome(p.function_call)
              THEN << <<text, p.function_call>> >> ELSE <<>>)
             \o PartsAsClaimed(Tail(parts))

\* the Gemini bodies of valid events, each with the parts of the first
\* candidate of its events, in order
C8_Bodies ==
    {[body |-> GB.Multi, parts |-> G.Multi.value.candidates[1].content.parts],
     [body |-> GB.Hi, parts |-> G.Hi.value.candidates[1].content.parts],
     [body |-> GB.Mixed, parts |-> G.Hi.value.candidates[1].content.parts
                                   \o G.Call.value.candidates[1].content.parts],
     [body |-> GB.Lines, parts |-> G.EmptyText.value.candidates[1].content.parts
                                   \o G.TwoCandidates.value.candidates[1].content.parts]}

IsPrefix(s, t) == Len(s) <= Len(t) /\ s = SubSeq(t, 1, Len(s))

\* C8: the parts of a Gemini event become items in part order.  The items
\* sent for parts are always a prefix of the items C8 lists for the parts,
\* and all of them once the body is over; for the five parts of G.Multi they
\* are the text A, the call f, and the text B with the call g, each call
\* whole (name and args) from its own part.
C8_PartOrder ==
    \A c \in C8_Bodies :
        (backend = "gemini" /\ body = c.body) =>
            /\ IsPrefix(VisibleSeq(SelectSeq(sent, LAMBDA it : it.src = "part")),
                        PartsAsClaimed(c.parts))
            /\ DeliveredWhole => VisibleSeq(sent) = PartsAsClaimed(c.parts)
            /\ (DeliveredWhole /\ body = GB.Multi)
                  => VisibleSeq(sent) = << <<T.A, None>>,
                                           <<(<<>>), Some(CallValue(T.f))>>,
                                           <<T.B, Some(CallValue(T.g))>> >>

\* the five parts of G.Multi were decoded and their three items sent
C8_Witness ==
    /\ DeliveredWhole
    /\ body = GB.Multi
    /\ Len(sent) = 3
    /\ received = sent

\* C9: no spurious empty items.  Every item sent on a channel has a non-empty
\* text or carries a tool call; the events of OB.Text and GB.Lines whose text
\* is empty and that carry no call produce no item.
C9_NoEmptyItems ==
    /\ \A k \in 1..Len(sent) : sent[k].text # <<>> \/ IsSome(sent[k].fc)
    /\ \A k \in 1..Len(outbox) : outbox[k].text # <<>> \/ IsSome(outbox[k].fc)
    /\ (DeliveredWhole /\ body = OB.Text) => VisibleSeq(sent) = << <<T.Hi, None>> >>
    /\ (DeliveredWhole /\ body = GB.Lines) => VisibleSeq(sent) = << <<T.A, None>> >>

\* the four events of OB.Text were decoded: only the one with text gave an item
C9_Witness ==
    /\ DeliveredWhole
    /\ body = OB.Text
    /\ chunk_count = 2
    /\ Len(sent) = 1
    /\ closedSeen

\* C10: every stream closes.  Once the channel exists, a consumer that keeps
\* its receiver sees recv() return None, after it has received every item that
\* was sent, the task being over.
C10_StreamCloses ==
    rxAlive ~> (~rxAlive \/ (closedSeen /\ pc = "done" /\ chan = <<>> /\ received = sent))

\* a mock stream of several chunks drained to its closure
C10_Witness ==
    /\ backend = "mock"
    /\ closedSeen
    /\ Len(received) >= 2
    /\ received = sent

\* C11: cancellation.  Once the receiver of a started stream is dropped, the
\* producer task sends no further item and its next step ends it: a chunk
\* it still takes leads to the send that fails, never back to the loop over
\* the rest of the body.
C11_Cancellation ==
    [][(~rxAlive /\ pc \in {"recv", "send"}) =>
          /\ sent' = sent
          /\ chan' = chan
          /\ pc' \in {"send", "done"}]_vars

\* what a step may do to the channel: the producer appends the first of its
\* pending items at the tail (or the stream error text), the consumer takes
\* the head, or the receiver is dropped; and while the receiver lives, an item
\* leaves the producer's pending items only by being appended to the channel
ChannelStep ==
    /\ chan' # chan =>
          \/ /\ \E it \in {StreamErrorItem} \cup (IF outbox = <<>> THEN {} ELSE {Head(outbox)}) :
                    chan' = Append(chan, it) /\ sent' = Append(sent, it)
             /\ received' = received
             /\ rxAlive
          \/ /\ chan' = Tail(chan)
             /\ received' = Append(received, Head(chan))
             /\ sent' = sent
          \/ /\ ~rxAlive'
             /\ chan' = <<>>
             /\ received' = received
             /\ sent' = sent
    /\ (rxAlive /\ outbox # <<>> /\ outbox' # outbox) =>
          /\ outbox' = Tail(outbox)
          /\ chan' = Append(chan, Head(outbox))

\* C12: ordered delivery, at most once, nothing lost.  The items received are
\* always the first of the items sent, in the same order; while the receiver
\* lives, the items received followed by those queued are exactly the items
\* sent; the channel never holds more than its capacity; and every step
\* changes the channel as ChannelStep says, the producer being its one writer.
C12_OrderedDelivery ==
    /\ [](/\ IsPrefix(received, sent)
          /\ rxAlive => received \o chan = sent
          /\ Len(chan) <= (IF backend = "mock" THEN MockChannelCapacity ELSE ChannelCapacity))
    /\ [][ChannelStep]_vars

\* the mock producer has filled the channel and waits in send for room, the
\* consumer having received some items already
C12_Witness ==
    /\ backend = "mock"
    /\ rxAlive
    /\ pc = "send"
    /\ Len(chan) = MockChannelCapacity
    /\ received # <<>>
    /\ received \o chan = sent

\* the turns of a request: the contents of a Gemini request, the messages of
\* an OpenAI request
RequestTurns(request) == IF backend = "gemini" THEN request.contents ELSE request.messages

\* the text of a user turn
UserText(turn) == IF backend = "gemini" THEN Unwrap(turn.parts[1].text) ELSE turn.content

\* C13: the request replays the history.  While send_message or
\* send_message_stream awaits its response, the turns of the request it sent
\* are: for OpenAI with a system message set, one system message with that
\* text; then the turns of the history in their order; then one user turn
\* with the text argument if and only if that text is not empty.  The Gemini
\* request carries the system instruction beside the turns.
C13_RequestReplaysHistory ==
    call # None =>
        LET c == Unwrap(call)
            turns == RequestTurns(c.request)
            lead == IF backend = "openai" /\ system_instruction # None THEN 1 ELSE 0
            n == Len(conversation_history)
            user == IF c.message # <<>> THEN 1 ELSE 0
        IN  /\ Len(turns) = lead + n + user
            /\ lead = 1 => /\ turns[1].role = "system"
                           /\ turns[1].content = Unwrap(system_instruction)
            /\ SubSeq(turns, lead + 1, lead + n) = conversation_history
            /\ user = 1 => /\ Last(turns).role = "user"
                           /\ UserText(Last(turns)) = c.message
            /\ backend = "gemini" => c.request.system_instruction = system_instruction

\* send_message_stream("") of an OpenAI client with a system message and two
\* turns of history awaits its response
C13_Witness ==
    /\ backend = "openai"
    /\ call # None
    /\ Unwrap(call).kind = "send_message_stream"
    /\ Unwrap(call).message = <<>>
    /\ system_instruction # None
    /\ Len(conversation_history) = 2
    /\ Len(Unwrap(call).request.messages) = 3

\* C14: the function turn matches the call it answers, in the OpenAI store.
\* A tool message that follows an assistant message recording a tool call of
\* its name carries, as tool_call_id, the id of a tool call of that assistant
\* message.
C14_MatchingFunctionTurn ==
    backend = "openai" =>
        \A k \in 2..Len(conversation_history) :
            LET model == conversation_history[k - 1]
                function == conversation_history[k]
                calls == IF model.tool_calls = None THEN <<>> ELSE Unwrap(model.tool_calls)
            IN  (/\ model.role = "assistant"
                 /\ function.role = "tool"
                 /\ \E i \in 1..Len(calls) : calls[i].function.name = Unwrap(function.name))
                => \E i \in 1..Len(calls) : calls[i].id = Unwrap(function.tool_call_id)

\* a turn that records a tool call, and a turn that carries a function result
IsModelTurnWithCall(turn) ==
    CASE backend = "gemini" ->
            turn.role = "model" /\ \E i \in 1..Len(turn.parts) : IsSome(turn.parts[i].function_call)
      [] backend = "openai" -> turn.role = "assistant" /\ IsSome(turn.tool_calls)
      [] backend = "mock" -> turn.role = "assistant" /\ IsSome(turn.function_call)
IsFunctionTurn(turn) ==
    CASE backend = "gemini" ->
            turn.role = "user" /\ Len(turn.parts) = 1 /\ IsSome(turn.parts[1].function_response)
      [] backend = "openai" -> turn.role = "tool" /\ IsSome(turn.tool_call_id)
      [] backend = "mock" -> turn.role = "function"

\* the step appends one turn to the history and leaves the turns before it
AppendsOne ==
    /\ Len(conversation_history') = Len(conversation_history) + 1
    /\ SubSeq(conversation_history', 1, Len(conversation_history)) = conversation_history

\* C15: round trip of the appends.  add_model_response with a tool call
\* appends one turn, a model turn recording the call, and add_function_response
\* appends one turn, a function turn, each leaving the turns before it as
\* they were: after the two the history is two turns longer, the model turn
\* then the function turn last.  And a request sent while the history ends
\* with that pair holds the pair, in that order, where the history ends in it.
C15_AppendRoundTrip ==
    /\ [][AddModelResponse =>
            (AppendsOne /\ Last(conversation_history').role
                              = (IF backend = "gemini" THEN "model" ELSE "assistant"))]_vars
    /\ [][AddFunctionResponse => (AppendsOne /\ IsFunctionTurn(Last(conversation_history')))]_vars
    /\ [](\A n \in 0..Len(conversation_history) :
             (/\ call # None
              /\ Len(conversation_history) = n + 2
              /\ IsModelTurnWithCall(conversation_history[n + 1])
              /\ IsFunctionTurn(conversation_history[n + 2]))
             => LET turns == RequestTurns(Unwrap(call).request)
                    lead == IF backend = "openai" /\ system_instruction # None THEN 1 ELSE 0
                IN  /\ turns[lead + n + 1] = conversation_history[n + 1]
                    /\ turns[lead + n + 2] = conversation_history[n + 2]
                    /\ SubSeq(turns, lead + 1, lead + n) = SubSeq(conversation_history, 1, n))

\* after a user turn, a model turn with a tool call and its function turn, a
\* Gemini client sends the continuation request with the empty text
C15_Witness ==
    /\ backend = "gemini"
    /\ Len(conversation_history) = 3
    /\ conversation_history[1].role = "user"
    /\ IsModelTurnWithCall(conversation_history[2])
    /\ IsFunctionTurn(conversation_history[3])
    /\ call # None
    /\ Unwrap(call).message = <<>>
    /\ Unwrap(call).request.contents = conversation_history

\* C16: clear_conversation is total and idempotent.  Whenever the caller may
\* call the client, clear_conversation can be called, whatever the history
\* and the backend; after it the history is empty, from an empty history
\* as from any other, and the system instruction is as before.
C16_ClearConversation ==
    /\ [](CallerFree => ENABLED ClearConversation)
    /\ [][ClearConversation =>
            /\ conversation_history' = <<>>
            /\ system_instruction' = system_instruction]_vars

\* after a failed send_message_stream the last call of the caller was
\* clear_conversation: the error is consumed, the history is empty, and no
\* system prompt was ever loaded
C16_Witness ==
    /\ pc = "failed"
    /\ conversation_history = <<>>
    /\ result = None
    /\ system_instruction = None
    /\ call = None

\* the text of the system instruction
SystemText == IF backend = "gemini" THEN Unwrap(Unwrap(system_instruction).parts[1].text)
              ELSE Unwrap(system_instruction)

\* C17: only load_system_prompt changes the system instruction.  Every step
\* that changes it is a step of load_system_prompt; no turn of the history
\* has the role "system", and none holds the text of the system instruction.
C17_SystemInstruction ==
    /\ [][system_instruction' # system_instruction => LoadSystemPrompt]_vars
    /\ [](\A k \in 1..Len(conversation_history) :
             LET turn == conversation_history[k]
             IN  /\ turn.role # "system"
                 /\ system_instruction # None =>
                       IF backend = "gemini"
                       THEN \A i \in 1..Len(turn.parts) : turn.parts[i].text # Some(SystemText)
                       ELSE turn.content # SystemText)

\* an OpenAI client with its system message set and a full history has sent
\* a request, which leads with the system message
C17_Witness ==
    /\ backend = "openai"
    /\ system_instruction # None
    /\ Len(conversation_history) = MaxHistory
    /\ call # None
    /\ Unwrap(call).request.messages[1].role = "system"

\* C18: a status that is not 2xx.  The step that gives the response with
\* such a status to send_message or send_message_stream returns the error
\* "API request failed: ..", leaves the history and the system instruction
\* as they are, and creates no channel and no task: there is no receiver, the
\* channel and the task's locals are untouched.  And after a failed
\* send_message_stream nothing is ever sent or received.
C18_ErrorStatus ==
    /\ [][(\E status \in Caller.Statuses \ (200..299) :
              \/ \E reply \in Caller.GeminiReplies \cup Caller.OpenAIReplies :
                    SendMessageResponse(status, reply)
              \/ \E b \in GeminiBodies \cup OpenAIBodies : StartStream(backend, status, b))
           => /\ result' = Some(ApiRequestFailed)
              /\ conversation_history' = conversation_history
              /\ system_instruction' = system_instruction
              /\ ~rxAlive'
              /\ UNCHANGED <<body, pos, buffer, chunk_count, current_tool_calls, outbox,
                             chan, received, closedSeen, sent>>]_vars
    /\ [](pc = "failed" =>
             /\ ~rxAlive
             /\ chan = <<>> /\ sent = <<>> /\ received = <<>> /\ outbox = <<>>
             /\ chunk_count = 0 /\ body = <<>> /\ ~closedSeen)

\* send_message_stream of a client with a full history has failed on its
\* status
C18_Witness ==
    /\ pc = "failed"
    /\ result = Some(ApiRequestFailed)
    /\ Len(conversation_history) = MaxHistory
    /\ call = None

\* the call in flight or just returned was made with a name that a built-in
\* tool and a tool of the MCP manager share
NameInBoth ==
    /\ executing # None
    /\ mcp_manager # None
    /\ Unwrap(executing).name \in Unwrap(mcp_manager)
    /\ Unwrap(executing).name \in Dispatch.RegistryTools \cup {Lit.shell_command}

\* C19: resolution order of the dispatcher.  A call whose name is a built-in
\* tool's (the "shell_command" of the executor, a tool of the registry) is
\* never given to the MCP manager, also when the manager has a tool of that
\* name: nothing invoked for it is a call_tool, and what runs is the built-in
\* tool.  The MCP manager is called only for a name no built-in tool has.
C19_BuiltinBeforeMcp ==
    /\ executing # None =>
          LET name == Unwrap(executing).name
              builtin == name \in Dispatch.RegistryTools \cup {Lit.shell_command}
          IN  /\ \A i \in 1..Len(invoked) :
                    /\ invoked[i].name = name
                    /\ invoked[i].op = "call_tool" =>
                          (~builtin /\ mcp_manager # None /\ name \in Unwrap(mcp_manager))
                    /\ invoked[i].op = "sh" => name = Lit.shell_command
                    /\ invoked[i].op \in {"validate_params", "execute"} =>
                          name \in Dispatch.RegistryTools
              /\ builtin => tool_pc # "call_tool"
              /\ (name \in Dispatch.RegistryTools) => invoked # <<>>
    /\ tool_pc = "call_tool" => invoked[Len(invoked)].op = "call_tool"

\* save_memory, which the MCP manager has too, was executed by the built-in
\* tool and has returned its response
C19_Witness ==
    /\ NameInBoth
    /\ Unwrap(executing).name = Lit.save_memory
    /\ tool_pc = "idle"
    /\ function_result # None
    /\ Unwrap(function_result).ok
    /\ invoked[Len(invoked)] = Invocation("execute", Lit.save_memory)

\* C20: validate before execute.  For a call of a built-in tool of the
\* registry, execute is invoked only after validate_params of the same tool,
\* and only when validate_params accepted the parameters; when it rejects
\* them the call returns its error and execute is not invoked.  The shell
\* of "shell_command", which has no validate_params, is run only with a
\* "command" parameter that is a string.
C20_ValidateBeforeExecute ==
    executing # None =>
        LET fc == Unwrap(executing)
        IN  /\ \A i \in 1..Len(invoked) :
                  invoked[i].op = "execute" =>
                      /\ \E j \in 1..(i - 1) : invoked[j] = Invocation("validate_params", fc.name)
                      /\ validate_params(fc.name, fc.args) = None
            /\ (fc.name \in Dispatch.RegistryTools /\ validate_params(fc.name, fc.args) # None)
                  => /\ invoked = <<Invocation("validate_params", fc.name)>>
                     /\ tool_pc = "idle"
                     /\ function_result
                          = Some([ok |-> FALSE, error |-> Unwrap(validate_params(fc.name, fc.args))])
            /\ tool_pc = "execute" => invoked[Len(invoked)].op = "execute"
            /\ \A i \in 1..Len(invoked) :
                  invoked[i].op = "sh" =>
                      /\ ValueGet(fc.args, Lit.command) # None
                      /\ Unwrap(ValueGet(fc.args, Lit.command)).t = "str"

\* save_memory was called with a fact of white space alone: the call
\* returned the error of validate_params
C20_Witness ==
    /\ executing # None
    /\ Unwrap(executing).name = Lit.save_memory
    /\ ValueGet(Unwrap(executing).args, Lit.fact) = Some(JStr(T.Blank))
    /\ function_result = Some([ok |-> FALSE, error |-> Lit.fact_empty])
    /\ invoked = <<Invocation("validate_params", Lit.save_memory)>>

\* the items of the mock stream in the order the task sends them: those it
\* has sent and those it has still to send
MockStreamItems == sent \o outbox

\* C30: the stream of the mock client.  The task sends the chunks of the
\* response one item each, in order, and the consumer receives them one by
\* one in that order.  Of the n items the first n-1 carry no tool call; the
\* last carries the call of a trigger the message contains, or none when
\* the message contains no trigger.  So a tool call is delivered at most
\* once, with the final chunk.
C30_MockStream ==
    /\ [](backend = "mock" =>
            /\ IsPrefix(received, sent)
            /\ \A i \in 1..(Len(MockStreamItems) - 1) : MockStreamItems[i].fc = None
            /\ Cardinality({i \in 1..Len(received) : received[i].fc # None}) <= 1
            /\ (closedSeen => received = sent /\ outbox = <<>>))
    /\ [][(backend = "mock" /\ pc = "idle" /\ pc' = "send") =>
            \E message \in MockMessages :
                LET matching == {e \in mock.function_calls :
                                    Contains(ToLowercase(message), e.trigger)}
                    n == Len(outbox')
                IN  /\ n >= 1
                    /\ sent' = <<>>
                    /\ IF matching = {} THEN outbox'[n].fc = None
                       ELSE \E e \in matching : outbox'[n].fc = Some(e.call)
                    /\ \E r \in GetNextResponse(mock, message) :
                          [i \in 1..n |-> outbox'[i].text] = SplitIntoChunks(r.response)]_vars
    /\ [][(backend = "mock" /\ received' # received) =>
            received' = Append(received, sent[Len(received) + 1])]_vars

\* the consumer has received a mock stream of several chunks to its end, and
\* the last one carried the tool call
C30_Witness ==
    /\ backend = "mock"
    /\ closedSeen
    /\ Len(received) >= 3
    /\ received[Len(received)].fc # None
    /\ \A i \in 1..(Len(received) - 1) : received[i].fc = None

(***************************************************************************)
(* run_app: the requests outstanding, the classification of the chunks     *)
(* and the text shown after a failure (AppSpec).                           *)
(***************************************************************************)
\* the tasks whose request is outstanding: send_message_stream called and
\* the stream not yet drained, or the fallback send_message not yet back
Outstanding == {t \in 1..Len(tasks) : tasks[t].pc \in {"call", "recv", "fallback"}}

\* the items task t received that are text of the model, in order
ModelText(t) ==
    LET got == tasks[t].got
        F[i \in 0..Len(got)] ==
            IF i = 0 THEN <<>>
            ELSE IF got[i].src \in {"part", "delta"} THEN F[i - 1] \o got[i].text
            ELSE F[i - 1]
    IN  F[Len(got)]

\* C27: there is never more than one outstanding model request: no new
\* send_message_stream or fallback send_message is issued while a previous
\* stream is still open.  run_app does not look at is_loading when Enter is
\* pressed, and a second task is spawned beside the first.
C27_OneOutstandingRequest == Cardinality(Outstanding) <= 1

\* C28: a consumer never mistakes model output for an error or an error for
\* model output: the chunks run_app treats as errors are the failures of the
\* stream and no text of the model, and the "Streaming error" message is
\* shown for a failure only.  run_app tells them apart by the prefix of the
\* text, which a text of the model can carry.
C28_ErrorsDistinguishable ==
    \A t \in 1..Len(tasks) : \A i \in 1..Len(tasks[t].got) :
        LET item == tasks[t].got[i]
            shown == UiMessage(Ui.streaming_error \o item.text \o Ui.falling_back, "Error")
        IN  /\ IsErrorChunk(item.text) <=> item.src \in {"stream_error", "parse_error"}
            /\ item.src \in {"part", "delta"}
                  => \A m \in 1..Len(app.messages) : app.messages[m] # shown

\* C29: text that arrived before a failure of the stream stays visible: when
\* a task has received text chunks and then an error item, the concatenation
\* of the chunks is in a message of the assistant once the task is done.
\* run_app drops a text of white space and shows the fallback reply alone.
C29_TextBeforeErrorStaysVisible ==
    \A t \in 1..Len(tasks) :
        LET got == tasks[t].got
        IN  (/\ tasks[t].pc = "done"
             /\ Len(got) >= 2
             /\ got[Len(got)].src \in {"stream_error", "parse_error"}
             /\ \A i \in 1..(Len(got) - 1) : got[i].src \in {"part", "delta"})
            => \E m \in 1..Len(app.messages) :
                  /\ app.messages[m].message_type = "Assistant"
                  /\ app.messages[m].content = ModelText(t)

(***************************************************************************)
(* The tools advertised (ToolSpec).                                        *)
(***************************************************************************)
\* C23: the names in the list get_available_tools returns are pairwise
\* distinct, whatever tools the MCP servers offer.  The list is built by
\* extending a Vec three times, and a server may offer a tool under the
\* name of a built-in one.
C23_DistinctToolNames ==
    \A registry_tools \in Orders(Dispatch.RegistryTools) :
        \A mcp_tools \in Orders(IF mcp_manager # None THEN Unwrap(mcp_manager) ELSE {}) :
            LET tools == get_available_tools(registry_tools, mcp_tools)
            IN  \A i, j \in 1..Len(tools) : tools[i] = tools[j] => i = j

(***************************************************************************)
(* The orchestration loop (LoopSpec).                                      *)
(***************************************************************************)
\* the tool calls and the text a turn of the history records
CallsOfTurn(t) ==
    IF backend = "gemini"
    THEN LET with == SelectSeq(t.parts, LAMBDA p : IsSome(p.function_call))
         IN  [i \in 1..Len(with) |-> Unwrap(with[i].function_call)]
    ELSE IF IsSome(t.function_call) THEN <<Unwrap(t.function_call)>> ELSE <<>>
TextOfTurn(t) ==
    IF backend = "gemini"
    THEN LET with == SelectSeq(t.parts, LAMBDA p : IsSome(p.text))
         IN  IF with = <<>> THEN <<>> ELSE Unwrap(with[1].text)
    ELSE t.content

\* the step closes a stream with tool calls: one Model turn is appended,
\* with the accumulated text and every accumulated call
ModelTurnHasAllCalls ==
    (loop.state = "Streaming" /\ loop'.state = "ExecutingTools") =>
        /\ loop.calls # <<>>
        /\ AppendsOne
        /\ TextOfTurn(Last(conversation_history')) = loop.text
        /\ CallsOfTurn(Last(conversation_history')) = loop.calls

\* the step issues the next request: every call of the Model turn is
\* executed, the Function turns of the calls end the history in the order of
\* the calls, and the request is made with the empty text
FunctionTurnsBeforeResume ==
    (loop.requests # <<>> /\ Len(loop'.requests) > Len(loop.requests)) =>
        LET k == Len(loop.calls)
            n == Len(conversation_history)
            r == Len(loop.results)
        IN  /\ loop.state = "ExecutingTools"
            /\ k >= 1 /\ r >= k /\ n > k
            /\ IsModelTurnWithCall(conversation_history[n - k])
            /\ \A i \in 1..k :
                 /\ conversation_history[n - k + i] = FunctionTurn(backend, loop.results[r - k + i])
                 /\ loop.results[r - k + i].name = Unwrap(ValueGet(loop.calls[i], Lit.name)).s
            /\ loop'.requests = Append(loop.requests, <<>>)
            /\ UNCHANGED conversation_history

\* C24: one model turn.  When a stream closes with k >= 1 accumulated tool
\* calls, one Model turn with the accumulated text and all k calls is
\* appended, all k calls are executed and their Function turns appended in
\* the order of the calls, and only then is send_message_stream called again,
\* with the empty text.  add_model_response takes one call, so the Model
\* turn of a response with two calls records one of them.
C24_OneModelTurn == [][ModelTurnHasAllCalls]_vars /\ [][FunctionTurnsBeforeResume]_vars

\* the history holds n completed tool round-trips and nothing else after
\* the turn of the user: n Model turns with a call, each followed by a
\* Function turn, every other turn a Function turn, one for every result
CompletedRoundTrips(history, n) ==
    /\ history # <<>>
    /\ Cardinality({i \in 1..Len(history) : IsModelTurnWithCall(history[i])}) = n
    /\ \A i \in 2..Len(history) :
         /\ IsModelTurnWithCall(history[i]) \/ IsFunctionTurn(history[i])
         /\ IsModelTurnWithCall(history[i]) => i < Len(history) /\ IsFunctionTurn(history[i + 1])
    /\ Cardinality({i \in 1..Len(history) : IsFunctionTurn(history[i])}) = Len(loop.results)

\* C25: the loop terminates.  With the maximum of MaxIterations iterations
\* the loop never makes more than MaxIterations tool round-trips and
\* MaxIterations + 1 requests; when the response of cycle MaxIterations + 1
\* asks for a tool call again the loop reports ToolLoopExceeded and appends
\* nothing, and the history then holds exactly MaxIterations completed
\* round-trips, with no tool running and no turn half appended.
C25_ToolLoopExceeded ==
    [][/\ loop'.iterations <= MaxIterations
       /\ Len(loop'.requests) <= MaxIterations + 1
       /\ (loop.state = "Streaming" /\ loop.rx = <<>> /\ loop.calls # <<>>
           /\ loop.iterations = MaxIterations)
             => loop'.state = "ToolLoopExceeded" /\ UNCHANGED conversation_history
       /\ loop'.state = "ToolLoopExceeded" =>
            /\ loop'.iterations = MaxIterations
            /\ Len(loop'.requests) = MaxIterations + 1
            /\ loop'.calls # <<>>
            /\ loop'.pending = <<>>
            /\ tool_pc' = "idle" /\ function_result' = None
            /\ CompletedRoundTrips(conversation_history, MaxIterations)']_vars

\* the loop has reported ToolLoopExceeded after MaxIterations round-trips
C25_Witness ==
    /\ loop.state = "ToolLoopExceeded"
    /\ loop.iterations = MaxIterations
    /\ Len(loop.results) >= MaxIterations

\* the calls registered under the triggers the message of the user contains
TriggeredCalls(message) ==
    {e.call : e \in {c \in mock.function_calls : Contains(ToLowercase(message), c.trigger)}}

\* the calls of the items of the open stream: those accumulated and those to come
CallsOfStream ==
    loop.calls \o SelectSeq([i \in 1..Len(loop.rx) |-> IF IsSome(loop.rx[i].fc)
                                                        THEN Unwrap(loop.rx[i].fc)
                                                        ELSE JNull],
                            LAMBDA c : c # JNull)

\* C26: the weather scenario with the mock backend.  For a message of the
\* user that contains a registered trigger, the first stream carries one tool
\* call, the call registered under a trigger of the message, on its last
\* item; the second request is made with the empty text once the Function
\* turn of the call is appended, and its stream is text with no tool call;
\* the turn then completes, after exactly two calls of send_message_stream.
C26_WeatherScenario ==
    (backend = "mock" /\ loop.requests # <<>> /\ TriggeredCalls(loop.requests[1]) # {}) =>
        /\ Len(loop.requests) <= 2
        /\ loop.state # "ToolLoopExceeded"
        /\ (Len(loop.requests) = 1 /\ loop.state = "Streaming") =>
              /\ Len(CallsOfStream) = 1
              /\ CallsOfStream[1] \in TriggeredCalls(loop.requests[1])
              /\ loop.rx # <<>> => IsSome(Last(loop.rx).fc)
        /\ Len(loop.requests) = 1 => loop.state \in {"Streaming", "ExecutingTools"}
        /\ Len(loop.requests) = 2 =>
              /\ loop.requests[2] = <<>>
              /\ loop.state \in {"Streaming", "Idle"}
              /\ CallsOfStream = <<>>
              /\ loop.text \o (IF loop.rx = <<>> THEN <<>> ELSE loop.rx[1].text) # <<>>
              /\ Len(loop.results) = 1
              /\ \E i \in 1..Len(conversation_history) :
                    conversation_history[i] = FunctionTurn(backend, loop.results[1])
        /\ loop.state = "Idle" =>
              /\ Len(loop.requests) = 2
              /\ Len(conversation_history) = 4
              /\ IsModelTurnWithCall(conversation_history[2])
              /\ IsFunctionTurn(conversation_history[3])
              /\ ~IsModelTurnWithCall(conversation_history[4])
              /\ TextOfTurn(conversation_history[4]) = loop.text

\* the turn of the message "weather test" is complete after two requests
C26_Witness ==
    /\ backend = "mock"
    /\ loop.state = "Idle"
    /\ loop.requests = <<<<119, 101, 97, 116, 104, 101, 114, 32, 116, 101, 115, 116>> (* weather test *), <<>> >>
    /\ CallsOfTurn(conversation_history[2]) = <<CallValue(T.f)>>

\* the payload of a FunctionResponse says that the call failed
IndicatesFailure(response) == ValueGet(response, Lit.success) = Some(Dispatch.False)

\* turn t of the history is a Function turn with the name and the payload of
\* the FunctionResponse
TurnCarries(t, function_response) ==
    /\ IsFunctionTurn(t)
    /\ IF backend = "gemini"
       THEN LET value == Unwrap(t.parts[1].function_response)
            IN  /\ ValueGet(value, Lit.name) = Some(JStr(function_response.name))
                /\ ValueGet(value, Lit.response) = Some(function_response.response)
       ELSE t.content = ToJsonString(function_response.response)

\* execute_function has returned the failure of a tool that ran: an Err of
\* its validation or execution, or a response that reports the failure
ToolFailed ==
    /\ function_result # None
    /\ tool_pc = "idle"
    /\ invoked # <<>>
    /\ LET r == Unwrap(function_result)
       IN  ~r.ok \/ IndicatesFailure(r.value.response)

UnknownTool ==
    /\ executing # None
    /\ Unwrap(executing).name \notin Dispatch.RegistryTools \cup {Lit.shell_command}
    /\ mcp_manager # None => Unwrap(executing).name \notin Unwrap(mcp_manager)

\* C22: a tool call with an unknown name is not fatal.  execute_function
\* invokes nothing for it and returns the error "Unknown function: <name>";
\* the loop appends a Function turn whose response JSON carries that error
\* and marks the failure, and goes on with the turn: nothing is raised to the
\* caller.
C22_UnknownToolNotFatal ==
    [][/\ UnknownTool' =>
            /\ invoked' = <<>>
            /\ tool_pc' = "idle"
            /\ function_result' =
                  Some([ok |-> FALSE, error |-> Lit.unknown_function \o Unwrap(executing').name])
            /\ loop'.state = "ExecutingTools"
       /\ UnknownTool =>
            LET response == Last(loop'.results)
            IN  /\ AppendsOne
                /\ Len(loop'.results) = Len(loop.results) + 1
                /\ response.name = Unwrap(executing).name
                /\ TurnCarries(Last(conversation_history'), response)
                /\ IndicatesFailure(response.response)
                /\ ValueGet(response.response, Lit.error)
                      = Some(JStr(Lit.unknown_function \o Unwrap(executing).name))
                /\ loop'.state = "ExecutingTools"
                /\ loop'.pending = Tail(loop.pending)]_vars

\* the model called "fetch" with no MCP manager to offer it; the Function
\* turn of the failure is in the history and the turn of the user is complete
C22_Witness ==
    /\ loop.state = "Idle"
    /\ mcp_manager = None
    /\ \E i \in 1..Len(loop.results) :
         /\ loop.results[i].name = T.fetch
         /\ ValueGet(loop.results[i].response, Lit.error)
               = Some(JStr(Lit.unknown_function \o T.fetch))
         /\ \E j \in 1..Len(conversation_history) :
               TurnCarries(conversation_history[j], loop.results[i])

(***************************************************************************)
(* The mock client under send_message.                                     *)
(***************************************************************************)
\* send_message of the mock client has returned a text: the state after the
\* call
MockReturned == backend = "mock" /\ IsSome(result) /\ "text" \in DOMAIN Unwrap(result)

\* send_message of the mock client returns in this step
MockReturns == MockReturned' /\ result' # result

\* the text is the i-th configured response behind one of the two prefixes
\* get_next_response puts before a configured response
IsConfiguredResponse(text, i) ==
    text \in {<<77, 111, 99, 107, 32, 76, 76, 77, 58, 32>> (* Mock LLM:  *) \o mock.responses[i], <<77, 111, 99, 107, 32, 76, 76, 77, 32, 40, 84, 101, 115, 116, 32, 77, 111, 100, 101, 41, 58, 32>> (* Mock LLM (Test Mode):  *) \o mock.responses[i]}

\* C31: canned-response cycling.  On one mock client with the responses
\* r0..r(n-1), successive calls of send_message whose messages match no
\* trigger return successive configured responses: the call after the one
\* that returned r(i) returns r((i+1) mod n).  (The answer to a message
\* containing "error", which carries no configured response, is left aside.)
C31_CannedResponsesCycle ==
    [][\A i \in 1..Len(mock.responses) :
          (/\ MockReturned
           /\ MockReturns
           /\ IsConfiguredResponse(Unwrap(result).text, i)
           /\ \E j \in 1..Len(mock.responses) : IsConfiguredResponse(Unwrap(result').text, j))
          => Contains(Unwrap(result').text, mock.responses[(i % Len(mock.responses)) + 1])]_vars

\* C32: send_message(m) on a mock client appends to the client's history a
\* user entry for m and then an assistant entry holding the response, after
\* the turns that were there; when m contains a registered trigger the
\* assistant entry carries a registered function call.
C32_SendMessageAppendsTwo ==
    [][MockReturns =>
          LET n == Len(conversation_history)
              user == conversation_history'[n + 1]
              assistant == conversation_history'[n + 2]
          IN  /\ Len(conversation_history') = n + 2
              /\ IsPrefix(conversation_history, conversation_history')
              /\ user.role = "user"
              /\ assistant.role = "assistant"
              /\ assistant.content = Unwrap(result').text
              /\ (\E e \in mock.function_calls : Contains(ToLowercase(user.content), e.trigger))
                    => \E e \in mock.function_calls :
                          /\ Contains(ToLowercase(user.content), e.trigger)
                          /\ assistant.function_call = Some(e.call)]_vars

\* C33: the mock backend is deterministic.  Whatever client of the model and
\* whatever message, get_next_response has one outcome: one response text
\* and one function call, also for a message that contains more than one
\* registered trigger.
C33_MockDeterministic ==
    backend = "mock" =>
        \A message \in MockMessages :
            \A r1, r2 \in GetNextResponse(mock, message) :
                r1.response = r2.response /\ r1.function_call = r2.function_call

(***************************************************************************)
(* Data lines, the sentinel, the end of the byte stream and chunks that    *)
(* are not UTF-8.                                                          *)
(***************************************************************************)
\* the payloads the decode tasks skip: the sentinel and blank ones
SkippedPayloads == {Lit.done, <<>>, <<32>>, <<32, 32>>}

\* C34: within a complete event the data lines are handled in line order,
\* and a payload that is blank or the sentinel [DONE] is skipped.  No item
\* sent is the parse error of such a payload, and the stream of a body with
\* the sentinel between data lines, alone in an event and before a last
\* event carries the items of the other data lines, in line order, up to the
\* last event.
C34_SentinelSkipped ==
    /\ \A k \in ItemsFrom(sent, "parse_error") :
          \A payload \in SkippedPayloads :
              Len(sent[k].text) >= Len(Lit.data_sep \o payload)
                 => From(sent[k].text, Len(sent[k].text) - Len(Lit.data_sep \o payload))
                       # Lit.data_sep \o payload
    /\ (DeliveredWhole /\ body = GB.Sentinel)
          => VisibleSeq(sent) = << <<T.Hi, None>>, <<(<<>>), Some(CallValue(T.f))>>, <<T.A, None>> >>
    /\ (DeliveredWhole /\ body = OB.Sentinel)
          => VisibleSeq(sent) = << <<T.Hi, None>>, <<T.Hi, None>> >>

\* the body with the sentinels was decoded to its end by the Gemini task
C34_Witness ==
    /\ DeliveredWhole
    /\ body = GB.Sentinel
    /\ chunk_count >= 2
    /\ Len(sent) = 3
    /\ closedSeen

\* the delta fragments tried on the pending vector: with and without index
\* (0, 1, 2), id (empty, "call_1"), type, name (f, g) and arguments ({})
DeltaFragments ==
    {Unwrap(D_ToolCall(i, id, ty, n, a).value.tool_calls)[1] :
        i \in {None, Some(0), Some(1), Some(2)},
        id \in {None, Some(<<>>), Some(Lit.call_ \o <<49>>)},
        ty \in {None, Some(Lit.function)},
        n \in {None, Some(T.f), Some(T.g)},
        a \in {None, Some(T.EmptyObject)}}

\* the highest index a fragment of the stream was addressed to, -1 before the
\* first fragment
HighestIndexSeen ==
    IF fragments = <<>> THEN -1
    ELSE CHOOSE i \in {fragments[k][1] : k \in 1..Len(fragments)} :
            \A k \in 1..Len(fragments) : fragments[k][1] <= i

\* C35: OpenAI pending-slot merge.  The pending vector is as long as the
\* highest index seen plus one, and a fragment addressed to index i (0
\* without index) changes slot i only: the id when it brings a non-empty
\* one, the type and the name when it brings them, the arguments by
\* appending; every other slot stays as it is.
C35_PendingSlotMerge ==
    backend = "openai" =>
        /\ Len(current_tool_calls) = HighestIndexSeen + 1
        /\ \A d \in DeltaFragments :
              LET i == IF IsSome(d.index) THEN Unwrap(d.index) ELSE 0
                  merged == MergeDeltaToolCall(current_tool_calls, d)
                  old == IF i < Len(current_tool_calls) THEN current_tool_calls[i + 1]
                         ELSE NewToolCall
                  slot == merged[i + 1]
                  f == d.function
              IN  /\ Len(merged) = IF i < Len(current_tool_calls) THEN Len(current_tool_calls) ELSE i + 1
                  /\ \A j \in 1..Len(current_tool_calls) :
                        j # i + 1 => merged[j] = current_tool_calls[j]
                  /\ slot.id = IF IsSome(d.id) /\ Unwrap(d.id) # <<>> THEN Unwrap(d.id) ELSE old.id
                  /\ slot.call_type = IF IsSome(d.call_type) THEN Unwrap(d.call_type)
                                      ELSE old.call_type
                  /\ slot.function.name = IF IsSome(f) /\ IsSome(Unwrap(f).name)
                                          THEN Unwrap(Unwrap(f).name) ELSE old.function.name
                  /\ slot.function.arguments =
                        old.function.arguments
                        \o (IF IsSome(f) /\ IsSome(Unwrap(f).arguments)
                            THEN Unwrap(Unwrap(f).arguments) ELSE <<>>)

\* the fragments of two tool calls, at the indices 0 and 1, were merged into
\* two slots
C35_Witness ==
    /\ backend = "openai"
    /\ body = OB.TwoCalls
    /\ pc = "done"
    /\ Len(fragments) = 2
    /\ Len(current_tool_calls) = 2
    /\ current_tool_calls[1].function.name = T.f
    /\ current_tool_calls[2].function.name = T.g

(***************************************************************************)
(* The chunks of the mock stream.                                          *)
(***************************************************************************)
\* the text with its leading and trailing white space removed and every run
\* of white space inside it replaced by one space
RECURSIVE CollapseWhitespace(_)
CollapseWhitespace(s) ==
    IF s = <<>> THEN <<>>
    ELSE IF ~IsWhitespace(Head(s)) THEN <<Head(s)>> \o CollapseWhitespace(Tail(s))
    ELSE IF \A i \in 1..Len(s) : IsWhitespace(s[i]) THEN <<>>
    ELSE IF IsWhitespace(s[2]) THEN CollapseWhitespace(Tail(s))
    ELSE <<32>> \o CollapseWhitespace(Tail(s))

NormalizeWhitespace(s) == CollapseWhitespace(Trim(s))

\* the texts of the items, joined in order
RECURSIVE ConcatTexts(_)
ConcatTexts(items) ==
    IF items = <<>> THEN <<>> ELSE Head(items).text \o ConcatTexts(Tail(items))

\* C36: mock chunking round-trip.  The stream of a response has at least one
\* chunk, every chunk holds at most 3 words, and the chunks joined in order
\* are the response with its white space normalised: runs replaced by one
\* space, leading and trailing white space removed.  The consumer that reads
\* the stream to its end has received exactly that text.
C36_ChunkingRoundTrip ==
    /\ [][(backend = "mock" /\ pc = "idle" /\ pc' = "send") =>
            /\ Len(outbox') >= 1
            /\ \A i \in 1..Len(outbox') : Len(SplitWhitespace(outbox'[i].text)) <= 3
            /\ \E message \in MockMessages :
                  \E r \in GetNextResponse(mock, message) :
                     ConcatTexts(outbox') = NormalizeWhitespace(r.response)]_vars
    /\ [](backend = "mock" /\ closedSeen =>
            \E message \in MockMessages :
                \E r \in GetNextResponse(mock, message) :
                   ConcatTexts(received) = NormalizeWhitespace(r.response))

\* the response "Mock LLM (Test Mode): one two  three four", whose white
\* space is not normal, was streamed in three chunks and received whole
C36_Witness ==
    /\ backend = "mock"
    /\ closedSeen
    /\ Len(received) = 3
    /\ ConcatTexts(received) = <<77, 111, 99, 107, 32, 76, 76, 77, 32, 40, 84, 101, 115, 116, 32, 77, 111, 100, 101, 41, 58, 32, 111, 110, 101, 32, 116, 119, 111, 32, 116, 104, 114, 101, 101, 32, 102, 111, 117, 114>> (* Mock LLM (Test Mode): one two three four *)
    /\ \E message \in MockMessages :
          \E r \in GetNextResponse(mock, message) :
             r.response = <<77, 111, 99, 107, 32, 76, 76, 77, 32, 40, 84, 101, 115, 116, 32, 77, 111, 100, 101, 41, 58, 32, 111, 110, 101, 32, 116, 119, 111, 32, 32, 116, 104, 114, 101, 101, 32, 102, 111, 117, 114>> (* Mock LLM (Test Mode): one two  three four *)

\* the byte stream is over and the task is about to see it: every chunk of
\* the body was handled and its items were sent
BodyOver == backend \in {"gemini", "openai"} /\ pc = "recv" /\ pos = Len(body)

\* C37: the byte stream ends while the buffer holds text without its
\* blank-line delimiter.  The task sends nothing for that text: from the
\* end of the byte stream on it sends no item, and the stream of a body
\* whose last event lacks the blank line carries the items of the events
\* before it and no error.
C37_TrailingEventDiscarded ==
    /\ [][(BodyOver /\ pc' # pc /\ ~streamError') =>
            (pc' = "done" /\ sent' = sent /\ chan' = chan /\ outbox' = <<>>)]_vars
    /\ []((DeliveredWhole /\ body \in {GB.Partial, OB.Partial}) =>
            /\ buffer # <<>>
            /\ VisibleSeq(sent) = << <<T.Hi, None>> >>
            /\ closedSeen => VisibleSeq(received) = << <<T.Hi, None>> >>)

\* the body whose last event lacks the blank line was read to its end: the
\* event is still in the buffer and the channel is closed after one item
C37_Witness ==
    /\ DeliveredWhole
    /\ body = GB.Partial
    /\ buffer = Lit.data \o G.Call.json \o <<10>>
    /\ closedSeen
    /\ Len(received) = 1

\* the task takes a chunk in this step: the bytes of the body from pos to pos'
ChunkTaken == backend \in {"gemini", "openai"} /\ chunk_count' = chunk_count + 1

\* C38: a chunk that is not valid UTF-8 on its own is dropped whole.  The
\* buffer and the pending tool calls stay as they are, no item and no error
\* is sent, and the task goes on to the next chunk: after ":" with the first
\* byte of a two-byte character and then its second byte were dropped, the
\* chunk that brings the whole data event is decoded to its item.
C38_InvalidChunkDropped ==
    [][/\ (ChunkTaken /\ ~IsUtf8(SubSeq(body, pos + 1, pos'))) =>
            /\ buffer' = buffer
            /\ current_tool_calls' = current_tool_calls
            /\ outbox' = <<>>
            /\ sent' = sent
            /\ chan' = chan
            /\ ~streamError'
            /\ pc' = "recv"
       /\ (ChunkTaken /\ body = GB.CommentEAcute /\ chunk_count = 2 /\ pos = 4
             /\ buffer = <<>> /\ pos' = Len(body))
            => VisibleSeq(outbox') = << <<T.Hi, None>> >>]_vars

\* the chunk ":" with the first byte of the two-byte character and the chunk
\* of its second byte and the line end were taken and dropped: four bytes of
\* the body are gone, the buffer is empty and the task waits for the next chunk
C38_Witness ==
    /\ backend = "gemini"
    /\ body = GB.CommentEAcute
    /\ chunk_count = 2
    /\ pos = 4
    /\ buffer = <<>>
    /\ pc = "recv"
    /\ sent = <<>>
    /\ ~streamError

(***************************************************************************)
(* The name of a FunctionResponse.                                         *)
(***************************************************************************)
\* C39: every FunctionResponse execute_function returns successfully bears
\* the name of the function call that was executed, whether the shell, a
\* built-in tool of the registry or an MCP tool produced it.
C39_ResponseNamedAfterCall ==
    (function_result # None /\ Unwrap(function_result).ok) =>
        /\ executing # None
        /\ invoked # <<>>
        /\ Last(invoked) \in {Invocation(op, Unwrap(executing).name) :
                                 op \in {"sh", "execute", "call_tool"}}
        /\ Unwrap(function_result).value.name = Unwrap(executing).name

\* the three paths have returned a response: this one is the shell's, for
\* the call of shell_command
C39_Witness ==
    /\ executing # None
    /\ Unwrap(executing).name = Lit.shell_command
    /\ tool_pc = "idle"
    /\ function_result # None
    /\ Unwrap(function_result).ok
    /\ Unwrap(function_result).value.name = Lit.shell_command
    /\ Last(invoked) = Invocation("sh", Lit.shell_command)

(***************************************************************************)
(* ResponseCard::wrap_text (CardSpec).                                     *)
(***************************************************************************)
\* C40: for any text and any width, every line wrap_text returns is at most
\* width long, and a text longer than width comes back as more than one line.
C40_WrappedLinesFit ==
    \A k \in 1..Len(card.wrapped) :
        LET wrap == card.wrapped[k]
        IN  /\ \A i \in 1..Len(wrap.lines) : Len(wrap.lines[i]) <= wrap.width
            /\ Len(wrap.text) > wrap.width => Len(wrap.lines) > 1
====
